---- MODULE Spec2Model ----
(***************************************************************************)
(* pyjdbc: DB-API 2.0 connection / cursor protocol over a JDBC driver.     *)
(* The model follows src/pyjdbc/dbapi.py.  The foreign side (the JDBC      *)
(* connection, its prepared statements and result sets) is modelled as a   *)
(* small heap of handles; what the driver answers to a call is drawn from  *)
(* bounded sets.                                                           *)
(***************************************************************************)
EXTENDS Integers, Sequences, FiniteSets, TLC

\* ------------------------------------------------------------------ bounds
MaxTokens  == 2   \* placeholder tokens in one statement text
MaxParams  == 2   \* values in one positional parameter sequence
MaxSets    == 3   \* parameter sets handed to one executemany
MaxRows    == 2   \* rows of a result set / rows affected by one statement
MaxHandles == 2   \* foreign statement handles alive at once
MaxFetch   == 2   \* size argument of fetchmany
MaxCols    == 2   \* columns of one result set
MaxAssign  == 1   \* assignments to a spec's mandatory after its construction
MaxMantissa == 12   \* the leading digits of a nanosecond value

\* ------------------------------------------------------------ foreign heap
NoHandle == 0
Handles  == 1..MaxHandles
Names    == {"a", "b"}

VARIABLES
    jconn,     \* the java.sql.Connection: [closed, stmtOpen, rsOpen, rsRows, rsPos]
    cursor,    \* the JdbcCursor object's fields
    last,      \* the most recent call on the connection/cursor and how it ended
    argp,      \* an ArgumentParser class: its declared specs and its parse
    jvm,       \* the JVM of the process, its class path, and the latest call
    fs         \* the jaas files on disk and the latest configure_jaas call

vars == <<jconn, cursor, last, argp, jvm, fs>>


\* ----------------------------------------------------------------- values
\* A statement text is the sequence of its placeholder tokens: "%s" is a
\* format-style marker, a name of Names stands for the named marker ":name",
\* "?" is the driver's own positional marker.
Tokens == {"%s", "?"} \cup Names

SeqsUpTo(S, n) == UNION {[1..k -> S] : k \in 0..n}

\* texts of one placeholder style (the styles are not mixed in one call)
SqlTexts ==
    {t \in SeqsUpTo(Tokens, MaxTokens) :
        \/ \A i \in 1..Len(t) : t[i] = "%s"
        \/ \A i \in 1..Len(t) : t[i] = "?"
        \/ \A i \in 1..Len(t) : t[i] \in Names}

\* params of execute: None, a sequence of n values, or a mapping with keys
NoParams     == [kind |-> "None", n |-> 0, keys |-> {}]
SeqParams(n) == [kind |-> "seq",  n |-> n, keys |-> {}]
DictParams(K) == [kind |-> "dict", n |-> 0, keys |-> K]
ParamSets ==
    {NoParams} \cup {SeqParams(n) : n \in 0..MaxParams}
               \cup {DictParams(K) : K \in SUBSET Names}

\* exceptions a call can end with ("none": it returned)
DriverExc == {"SQLException", "HiveSQLException"}

\* what the driver does with one prepared statement: it rejects it when it is
\* prepared or when it is executed, or it runs it and answers with a result
\* set of n rows or with n affected rows; counted: the driver supports the
\* call that tells the count (ResultSet.last, Statement.getUpdateCount)
ExecResponses ==
    {[at |-> a, exc |-> e, hasRS |-> FALSE, n |-> 0, counted |-> FALSE] :
        a \in {"prepare", "execute"}, e \in DriverExc}
    \cup {[at |-> "none", exc |-> "none", hasRS |-> b, n |-> k, counted |-> s] :
        b \in BOOLEAN, k \in 0..MaxRows, s \in BOOLEAN}

\* which of the two close() calls of a reset/close the driver fails
CloseOutcomes == [stmt : BOOLEAN, rs : BOOLEAN]
CloseOk       == [stmt |-> FALSE, rs |-> FALSE]

Count(t, tok) == Cardinality({i \in 1..Len(t) : t[i] = tok})
Refs(t)       == {t[i] : i \in {j \in 1..Len(t) : t[j] \in Names}}
NumRefs(t)    == Cardinality({i \in 1..Len(t) : t[i] \in Names})

\* ------------------------------------------------- sqlparams.SQLParams.format
\* in-style 'format' -> out-style 'qmark': every %s takes the next value
\* (IndexError when the values run out); the out params are the consumed ones
FormatOrdinal(sql, n) ==
    IF Count(sql, "%s") > n
    THEN [exc |-> "IndexError", key |-> "", operation |-> sql, out |-> 0]
    ELSE [exc |-> "none", key |-> "",
          operation |-> [i \in 1..Len(sql) |-> IF sql[i] = "%s" THEN "?" ELSE sql[i]],
          out |-> Count(sql, "%s")]

\* in-style 'named' -> out-style 'qmark': every :name looks its key up
\* (KeyError on the first one missing); one out param per reference
FormatNamed(sql, keys) ==
    LET bad == {i \in 1..Len(sql) : sql[i] \in Names /\ sql[i] \notin keys} IN
    IF bad # {}
    THEN [exc |-> "KeyError",
          key |-> sql[CHOOSE i \in bad : \A j \in bad : i <= j],
          operation |-> sql, out |-> 0]
    ELSE [exc |-> "none", key |-> "",
          operation |-> [i \in 1..Len(sql) |-> IF sql[i] \in Names THEN "?" ELSE sql[i]],
          out |-> NumRefs(sql)]

\* ------------------------------------------------- JdbcCursor._parse_params
ParseError(m, sql) == [exc |-> "ValueError", msg |-> m, operation |-> sql, out |-> 0]

\* (mutant) unconsumed positional values are not looked for
_parse_params_lenient(sql, params) ==
    IF (params.kind = "seq" /\ params.n = 0) \/ (params.kind = "dict" /\ params.keys = {})
    THEN ParseError("empty", sql)
    ELSE IF params.kind = "dict"
    THEN LET f == FormatNamed(sql, params.keys) IN
         IF f.exc = "KeyError" THEN ParseError("missing", sql)
         ELSE IF f.out < Cardinality(params.keys) THEN ParseError("unused", sql)
         ELSE [exc |-> "none", msg |-> "", operation |-> f.operation, out |-> f.out]
    ELSE LET f == FormatOrdinal(sql, params.n) IN
         IF f.exc = "IndexError" THEN ParseError("insufficient", sql)
         ELSE [exc |-> "none", msg |-> "", operation |-> f.operation, out |-> f.out]

_parse_params(sql, params) ==
    IF (params.kind = "seq" /\ params.n = 0) \/ (params.kind = "dict" /\ params.keys = {})
    THEN ParseError("empty", sql)
    ELSE IF params.kind = "dict"
    THEN LET f == FormatNamed(sql, params.keys) IN
         IF f.exc = "KeyError" THEN ParseError("missing", sql)
         ELSE IF f.out < Cardinality(params.keys) THEN ParseError("unused", sql)
         ELSE [exc |-> "none", msg |-> "", operation |-> f.operation, out |-> f.out]
    ELSE LET f == FormatOrdinal(sql, params.n) IN
         IF f.exc = "IndexError" THEN ParseError("insufficient", sql)
         ELSE IF params.n - f.out # 0 THEN ParseError("excess", sql)
         ELSE [exc |-> "none", msg |-> "", operation |-> f.operation, out |-> f.out]

\* ---------------------------------------------------- the foreign objects
\* java.sql.Statement.close(): releases the statement and its result set
StmtClose(j, h) ==
    [j EXCEPT !.stmtOpen = @ \ {h}, !.rsOpen = @ \ {h},
              !.rsRows = [@ EXCEPT ![h] = 0], !.rsPos = [@ EXCEPT ![h] = 0]]

\* java.sql.ResultSet.close()
RsClose(j, h) ==
    [j EXCEPT !.rsOpen = @ \ {h},
              !.rsRows = [@ EXCEPT ![h] = 0], !.rsPos = [@ EXCEPT ![h] = 0]]

\* handles no live object uses: not open and not referenced by the cursor
FreeHandles(w) ==
    {h \in Handles : h \notin w.j.stmtOpen /\ h \notin w.j.rsOpen
                     /\ h # w.c.statement /\ h # w.c.resultset}

\* ------------------------------------------------------------- JdbcCursor
\* A world w is the pair [j: the java connection, c: the cursor's fields].
NewCursor(rowcounts) ==
    [created |-> TRUE, connection |-> TRUE, metadata |-> FALSE,
     statement |-> NoHandle, resultset |-> NoHandle,
     rowcount |-> -1, get_rowcounts |-> rowcounts]

NoCursor == [NewCursor(TRUE) EXCEPT !.created = FALSE, !.connection = FALSE]

_clear_metadata(w) == [w EXCEPT !.c.metadata = FALSE]

_clear_connection(w) == [w EXCEPT !.c.connection = FALSE]

\* (mutant) the statement is dropped without being closed
_close_statement_dropped(w, fails) ==
    [w |-> [w EXCEPT !.c.statement = NoHandle], exc |-> "none"]

\* fails: the driver raises from Statement.close()
_close_statement(w, fails) ==
    IF w.c.statement # NoHandle /\ fails
    THEN [w |-> w, exc |-> "SQLException"]
    ELSE [w |-> [j |-> IF w.c.statement # NoHandle
                       THEN StmtClose(w.j, w.c.statement) ELSE w.j,
                 c |-> [w.c EXCEPT !.statement = NoHandle]],
          exc |-> "none"]

_resultset_valid(c) == c.resultset # NoHandle

\* fails: the driver raises from ResultSet.close()
_close_resultset(w, fails) ==
    IF _resultset_valid(w.c) /\ fails
    THEN [w |-> w, exc |-> "SQLException"]
    ELSE [w |-> [j |-> IF _resultset_valid(w.c)
                       THEN RsClose(w.j, w.c.resultset) ELSE w.j,
                 c |-> [w.c EXCEPT !.resultset = NoHandle]],
          exc |-> "none"]

\* JdbcCursor.close: both closes run, what they raise is swallowed
CursorCloseBody(w, cf) ==
    LET w1 == _clear_metadata(_clear_connection(w))
        w2 == _close_statement(w1, cf.stmt).w
    IN  _close_resultset(w2, cf.rs).w

\* JdbcCursor._reset: the first close that raises ends it
_reset(w, cf) ==
    LET r1 == _close_statement(_clear_metadata(w), cf.stmt) IN
    IF r1.exc # "none" THEN r1 ELSE _close_resultset(r1.w, cf.rs)

\* the outcome of one call: the world after it, the exception it ended with,
\* and what it did on the foreign side
Outcome(w, exc, msg, prepares) ==
    [w |-> w, exc |-> exc, msg |-> msg, prepares |-> prepares, failedAt |-> "none",
     stuck |-> FALSE, truth |-> 0, known |-> FALSE]

\* lines 373-393 of execute: the result set or the update count
TakeResult(w, h, resp) ==
    IF resp.hasRS
    THEN LET j1 == [w.j EXCEPT !.rsOpen = @ \cup {h},
                               !.rsRows = [@ EXCEPT ![h] = resp.n],
                               !.rsPos = [@ EXCEPT ![h] = 0]]
             counted == w.c.get_rowcounts /\ resp.counted /\ resp.n > 0
         IN  [j |-> j1,
              c |-> [w.c EXCEPT !.resultset = h, !.metadata = TRUE,
                                !.rowcount = IF counted THEN resp.n ELSE -1]]
    ELSE [j |-> w.j,
          c |-> [w.c EXCEPT !.rowcount = IF resp.counted THEN resp.n ELSE -1]]

\* JdbcCursor.execute
ExecuteBody(w, sql, params, resp, cf) ==
    IF ~w.c.connection THEN Outcome(w, "AttributeError", "", 0)
    ELSE IF w.j.closed THEN Outcome(w, "Error", "closed", 0)
    ELSE
    LET r == _reset(w, cf) IN
    IF r.exc # "none" THEN [Outcome(r.w, r.exc, "", 0) EXCEPT !.failedAt = "close"]
    ELSE
    LET p == IF params.kind # "None" THEN _parse_params(sql, params)
             ELSE [exc |-> "none", msg |-> "", operation |-> sql, out |-> 0]
    IN
    IF p.exc # "none" THEN Outcome(r.w, p.exc, p.msg, 0)
    ELSE IF resp.at = "prepare"
         THEN [Outcome(r.w, resp.exc, "", 1) EXCEPT !.failedAt = "prepare"]
    ELSE IF FreeHandles(r.w) = {} THEN [Outcome(r.w, "none", "", 1) EXCEPT !.stuck = TRUE]
    ELSE
    LET h  == CHOOSE x \in FreeHandles(r.w) : \A y \in FreeHandles(r.w) : x <= y
        w1 == [j |-> [r.w.j EXCEPT !.stmtOpen = @ \cup {h}],
               c |-> [r.w.c EXCEPT !.statement = h]]
    IN
    IF resp.at = "execute"
    THEN [Outcome(w1, IF resp.exc = "HiveSQLException" THEN "ProgrammingError"
                      ELSE resp.exc, "", 1) EXCEPT !.failedAt = "execute"]
    ELSE [Outcome(TakeResult(w1, h, resp), "none", "", 1)
             EXCEPT !.truth = resp.n,
                    !.known = resp.counted]

\* ----------------------------------------------------- JdbcCursor.executemany
\* where the driver raises SQLException in the batch attempt ("none": batching
\* is supported and the statement is accepted)
BatchOutcomes == {"none", "prepare", "addBatch", "executeBatch"}

\* lines 409-414: parse, bind and queue each set; `operation` is rebound by
\* every parse.  Ends with the exception raised, and the sets queued so far.
RECURSIVE BatchLoop(_, _, _, _)
BatchLoop(operation, seq, i, bo) ==
    IF i > Len(seq) THEN [exc |-> "none", msg |-> "", batched |-> Len(seq)]
    ELSE LET p == IF seq[i].kind # "None" THEN _parse_params(operation, seq[i])
                  ELSE [exc |-> "none", msg |-> "", operation |-> operation, out |-> 0]
         IN  IF p.exc # "none" THEN [exc |-> p.exc, msg |-> p.msg, batched |-> i - 1]
             ELSE IF bo = "addBatch"
                  THEN [exc |-> "SQLException", msg |-> "", batched |-> i - 1]
             ELSE BatchLoop(p.operation, seq, i + 1, bo)

ManyOutcome(w, exc, msg, prepares, batched) ==
    [w |-> w, exc |-> exc, msg |-> msg, prepares |-> prepares, batched |-> batched,
     fallback |-> FALSE, execd |-> <<>>, counts |-> <<>>,
     stuck |-> FALSE, truth |-> 0, known |-> FALSE]

SumSeq(s) ==
    LET RECURSIVE Sum(_)
        Sum(i) == IF i = 0 THEN 0 ELSE s[i] + Sum(i - 1)
    IN  Sum(Len(s))

\* (mutant) every row count is added, the unknown -1 too
AddRowcountAny(rowcount, n) == rowcount + n

\* lines 423-424: only a positive row count of an execute is added
AddRowcount(rowcount, n) == IF n > 0 THEN rowcount + n ELSE rowcount

\* lines 420-426: one execute per set, the positive row counts summed
RECURSIVE FallbackLoop(_, _, _, _, _, _, _)
FallbackLoop(w, orig_sql, seq, resps, i, rowcount, acc) ==
    IF i > Len(seq)
    THEN [acc EXCEPT !.w = [w EXCEPT !.c.rowcount =
                               IF w.c.get_rowcounts THEN rowcount ELSE -1]]
    ELSE LET o == ExecuteBody(w, orig_sql, seq[i], resps[i], CloseOk)
             a == [acc EXCEPT !.w = o.w, !.prepares = @ + o.prepares]
         IN  IF o.stuck THEN [a EXCEPT !.stuck = TRUE]
             ELSE IF o.exc # "none" THEN [a EXCEPT !.exc = o.exc, !.msg = o.msg]
             ELSE FallbackLoop(o.w, orig_sql, seq, resps, i + 1,
                      AddRowcount(rowcount, o.w.c.rowcount),
                      [a EXCEPT !.execd = Append(@, seq[i]),
                                !.counts = Append(@, o.w.c.rowcount),
                                !.truth = @ + o.truth,
                                !.known = @ /\ o.known])

Fallback(w, orig_sql, seq, resps, prepares, batched) ==
    FallbackLoop(w, orig_sql, seq, resps, 1, 0,
        [ManyOutcome(w, "none", "", prepares, batched)
            EXCEPT !.fallback = TRUE, !.known = TRUE])

\* JdbcCursor.executemany.  bo: where the batch attempt raises; counts: the
\* array executeBatch returns; cf: the closes of the leading reset; cf2: the
\* statement close of the trailing reset; resps: what the driver answers to
\* the executes of the fallback
ExecuteManyBody(w, sql, seq, bo, counts, resps, cf, cf2) ==
    LET r == _reset(w, cf) IN
    IF r.exc # "none" THEN Fallback(r.w, sql, seq, resps, 0, 0)
    ELSE IF ~r.w.c.connection THEN ManyOutcome(r.w, "AttributeError", "", 0, 0)
    ELSE IF r.w.j.closed \/ bo = "prepare"
         THEN Fallback(r.w, sql, seq, resps, 1, 0)
    ELSE IF FreeHandles(r.w) = {}
         THEN [ManyOutcome(r.w, "none", "", 1, 0) EXCEPT !.stuck = TRUE]
    ELSE
    LET h  == CHOOSE x \in FreeHandles(r.w) : \A y \in FreeHandles(r.w) : x <= y
        w1 == [j |-> [r.w.j EXCEPT !.stmtOpen = @ \cup {h}],
               c |-> [r.w.c EXCEPT !.statement = h]]
        b  == BatchLoop(sql, seq, 1, bo)
    IN
    IF b.exc = "SQLException" THEN Fallback(w1, sql, seq, resps, 1, b.batched)
    ELSE IF b.exc # "none" THEN ManyOutcome(w1, b.exc, b.msg, 1, b.batched)
    ELSE IF bo = "executeBatch" THEN Fallback(w1, sql, seq, resps, 1, b.batched)
    ELSE
    LET w2 == [w1 EXCEPT !.c.rowcount = SumSeq(counts)]
        r2 == _reset(w2, [stmt |-> cf2, rs |-> FALSE])
    IN
    IF r2.exc # "none" THEN Fallback(r2.w, sql, seq, resps, 1, b.batched)
    ELSE [ManyOutcome(r2.w, "none", "", 1, b.batched)
             EXCEPT !.truth = SumSeq(counts), !.known = TRUE]

\* ------------------------------------------------------------ the fetches
batch_size == 1

\* java.sql.ResultSet.next() on an open result set
RsNext(j, h) ==
    [j EXCEPT !.rsPos = [@ EXCEPT ![h] =
        IF j.rsPos[h] <= j.rsRows[h] THEN j.rsPos[h] + 1 ELSE j.rsPos[h]]]

\* the rows of an open result set that next() has not reached yet
RowsLeft(j, h) ==
    IF j.rsPos[h] >= j.rsRows[h] THEN 0 ELSE j.rsRows[h] - j.rsPos[h]

\* JdbcCursor.fetchone: row 0 stands for None (end of the result set)
FetchOneBody(w) ==
    IF ~_resultset_valid(w.c) THEN [w |-> w, exc |-> "DatabaseError", row |-> 0]
    ELSE LET h == w.c.resultset IN
    IF h \notin w.j.rsOpen THEN [w |-> w, exc |-> "SQLException", row |-> 0]
    ELSE LET w1 == [w EXCEPT !.j = RsNext(w.j, h)] IN
    IF w1.j.rsPos[h] > w1.j.rsRows[h] THEN [w |-> w1, exc |-> "none", row |-> 0]
    ELSE IF ~w.c.metadata THEN [w |-> w1, exc |-> "AttributeError", row |-> 0]
    ELSE [w |-> w1, exc |-> "none", row |-> w1.j.rsPos[h]]

\* the loop of fetchmany (left >= 0 more fetches) and of fetchall (left = -1)
RECURSIVE FetchLoop(_, _, _)
FetchLoop(w, left, rows) ==
    IF left = 0 THEN [w |-> w, exc |-> "none", rows |-> rows]
    ELSE LET f == FetchOneBody(w) IN
         IF f.exc # "none" THEN [w |-> f.w, exc |-> f.exc, rows |-> rows]
         ELSE IF f.row = 0 THEN [w |-> f.w, exc |-> "none", rows |-> rows]
         ELSE FetchLoop(f.w, IF left > 0 THEN left - 1 ELSE left, Append(rows, f.row))

\* a fetchmany that does not stop at size
FetchManyBody_unbounded(w, size) ==
    IF ~_resultset_valid(w.c) THEN [w |-> w, exc |-> "DatabaseError", rows |-> <<>>]
    ELSE IF w.c.resultset \notin w.j.rsOpen
         THEN [w |-> w, exc |-> "SQLException", rows |-> <<>>]
    ELSE FetchLoop(w, -1, <<>>)

\* JdbcCursor.fetchmany; size -1 stands for None
FetchManyBody(w, size) ==
    IF ~_resultset_valid(w.c) THEN [w |-> w, exc |-> "DatabaseError", rows |-> <<>>]
    ELSE IF w.c.resultset \notin w.j.rsOpen
         THEN [w |-> w, exc |-> "SQLException", rows |-> <<>>]
    ELSE FetchLoop(w, IF size = -1 THEN batch_size ELSE size, <<>>)

\* JdbcCursor.fetchall
FetchAllBody(w) == FetchLoop(w, -1, <<>>)

\* --------------------------------------- ArgumentOpts and ArgumentParser
\* Argument values: the strings 'a' and 'b', the int 1 and the class str.
\* NoValue is None; Absent marks a name a dict has no key for.
NoValue == "None"
Absent  == "absent"
ArgValues == {"a", "b", "1", "class str"}
ArgNames  == {"x", "y", "z"}

\* position=None
NoPosition == -1

\* argtype: None, the classes str and int, or the tuple (str,)
ArgTypes == {NoValue, "str", "int", "(str,)"}

\* inspect.isclass(argtype)
IsClass(argtype) == argtype \in {"str", "int"}

\* isinstance(v, argtype)
IsInstance(v, argtype) ==
    \/ v \in {"a", "b"} /\ argtype \in {"str", "(str,)"}
    \/ v = "1" /\ argtype = "int"

\* issubclass(v, argtype), False where it raises TypeError
IsSubclass(v, argtype) == v = "class str" /\ argtype \in {"str", "(str,)"}

\* the decorated function of a spec: fn "f" turns 'a' into 'b' and the int 1
\* into the str 'a', and returns every other value as it is
Fns == {NoValue, "f"}
ApplyFn(fn, v) ==
    IF fn = "f" THEN (IF v = "a" THEN "b" ELSE IF v = "1" THEN "a" ELSE v) ELSE v

\* the keyword arguments of ArgumentOpts(...) that are not given
NoKw ==
    [name |-> "x", position |-> NoPosition, argtype |-> NoValue,
     mandatory |-> FALSE, requires |-> {}, excludes |-> {}, default |-> NoValue,
     secret |-> FALSE, choices |-> {}, fn |-> NoValue]

\* an ArgumentOpts.__init__ that leaves a positional argument optional
ArgumentOpts_optionalPosition(kw) ==
    IF kw.default # NoValue /\ kw.mandatory
    THEN [exc |-> "ValueError", opts |-> kw]
    ELSE [exc |-> "none", opts |-> kw]

\* ArgumentOpts.__init__: a position makes the argument mandatory, and a
\* default with mandatory is refused
ArgumentOpts(kw) ==
    LET mandatory == IF kw.position # NoPosition THEN TRUE ELSE kw.mandatory IN
    IF kw.default # NoValue /\ mandatory
    THEN [exc |-> "ValueError", opts |-> kw]
    ELSE [exc |-> "none", opts |-> [kw EXCEPT !.mandatory = mandatory]]

\* the declarations of a parser class and its base class are sequences of
\* [level: "base" or "sub", opts]; reversed(type(self).mro()) visits the base
\* class first
MroOrder(decls) ==
    SelectSeq(decls, LAMBDA d : d.level = "base")
    \o SelectSeq(decls, LAMBDA d : d.level = "sub")

HasName(named, n) == \E k \in 1..Len(named) : named[k].name = n
NamedArg(named, n) == named[CHOOSE k \in 1..Len(named) : named[k].name = n]

\* the loop of ArgumentParser._register_args over the declarations ds, from
\* the i-th on; named is self._named_args in insertion order
RECURSIVE RegisterLoop(_, _, _)
RegisterLoop(ds, i, named) ==
    IF i > Len(ds) THEN [exc |-> "none", msg |-> "", named |-> named]
    ELSE IF HasName(named, ds[i].opts.name)
         THEN [exc |-> "NameError", msg |-> "already defined", named |-> named]
         ELSE RegisterLoop(ds, i + 1, Append(named, ds[i].opts))

Positions(named) ==
    {named[k].position : k \in {i \in 1..Len(named) : named[i].position # NoPosition}}

MaxOf(S) == CHOOSE m \in S : \A x \in S : x <= m

\* self._position_args[p]: the last registered spec with position p
PositionArg(named, p) ==
    named[MaxOf({k \in 1..Len(named) : named[k].position = p})]

\* ArgumentParser._register_args with _register_positional
_register_args(decls) ==
    LET r == RegisterLoop(MroOrder(decls), 1, <<>>) IN
    IF r.exc # "none" THEN r
    ELSE IF Positions(r.named) # {}
            /\ Positions(r.named) # 0..MaxOf(Positions(r.named))
         THEN [exc |-> "ValueError", msg |-> "not sequential", named |-> r.named]
         ELSE r

\* A dict of argument values is a sequence of [name, value] in insertion
\* order.
KvHas(kv, n) == \E k \in 1..Len(kv) : kv[k].name = n
KvNames(kv)  == {kv[k].name : k \in 1..Len(kv)}
\* kv.get(n)
KvGet(kv, n) ==
    IF KvHas(kv, n) THEN kv[CHOOSE k \in 1..Len(kv) : kv[k].name = n].value
    ELSE NoValue
\* kv[n] = v
KvSet(kv, n, v) ==
    IF KvHas(kv, n)
    THEN [k \in 1..Len(kv) |-> IF kv[k].name = n THEN [name |-> n, value |-> v]
                                                 ELSE kv[k]]
    ELSE Append(kv, [name |-> n, value |-> v])

\* the first index of a set of indices, 0 if there is none
FirstOf(K) == IF K = {} THEN 0 ELSE CHOOSE k \in K : \A x \in K : k <= x

\* parsing ended with an exception: msg names the check that failed, arg the
\* argument named in the text, shown the argument value the text contains,
\* co the co-arguments the text of a requires or excludes failure lists
ParseFailed(exc, msg, arg, shown) ==
    [exc |-> exc, msg |-> msg, arg |-> arg, shown |-> shown, kv |-> <<>>,
     co |-> {}]
ParseOk(kv) ==
    [exc |-> "none", msg |-> "", arg |-> "", shown |-> Absent, kv |-> kv,
     co |-> {}]

\* an "apply defaults" that applies none
ApplyDefaults_none(named, i, kv) == kv

\* "apply defaults": the loop over self._named_args from the i-th on
RECURSIVE ApplyDefaults(_, _, _)
ApplyDefaults(named, i, kv) ==
    IF i > Len(named) THEN kv
    ELSE ApplyDefaults(named, i + 1,
            IF named[i].default # NoValue /\ KvGet(kv, named[i].name) = NoValue
            THEN KvSet(kv, named[i].name, named[i].default)
            ELSE kv)

\* the value "apply functions" leaves for one entry
FnValue(arg, v) ==
    IF v = NoValue \/ arg.fn = NoValue THEN v ELSE ApplyFn(arg.fn, v)

\* "apply functions": every entry is replaced by its function's value; the
\* first value of a wrong type ends the parse
ApplyFns(named, kv) ==
    LET bad == FirstOf({k \in 1..Len(kv) :
                    LET arg == NamedArg(named, kv[k].name) IN
                    /\ kv[k].value # NoValue /\ arg.fn # NoValue
                    /\ arg.argtype # NoValue
                    /\ ~IsInstance(ApplyFn(arg.fn, kv[k].value), arg.argtype)})
    IN  IF bad # 0 THEN ParseFailed("TypeError", "fn type", kv[bad].name, Absent)
        ELSE ParseOk([k \in 1..Len(kv) |->
                        [name |-> kv[k].name,
                         value |-> FnValue(NamedArg(named, kv[k].name), kv[k].value)]])

\* the choices loop: the text of its error contains the value
CheckChoices(named, kv) ==
    LET bad == FirstOf({k \in 1..Len(kv) :
                    LET arg == NamedArg(named, kv[k].name) IN
                    arg.choices # {} /\ kv[k].value \notin arg.choices})
    IN  IF bad # 0
        THEN ParseFailed("ValueError", "choices", kv[bad].name, kv[bad].value)
        ELSE ParseOk(kv)

\* a tail of _parse_args that validates choices before it applies defaults
\* and functions
Finish_choicesFirst(named, kv) ==
    LET c == CheckChoices(named, kv) IN
    IF c.exc # "none" THEN c ELSE ApplyFns(named, ApplyDefaults(named, 1, kv))

\* the tail of _parse_args: defaults, then functions, then choices
Finish(named, kv) ==
    LET f == ApplyFns(named, ApplyDefaults(named, 1, kv)) IN
    IF f.exc # "none" THEN f ELSE CheckChoices(named, f.kv)

\* the condition under which "check for valid types" raises
TypeInvalid(arg, v) ==
    /\ ~IsClass(arg.argtype)
    /\ ~IsInstance(v, arg.argtype)
    /\ ~IsSubclass(v, arg.argtype)

\* a mandatory check that misses nothing
Missing_none(named, kv) == {}

\* the mandatory arguments without a value: arg.mandatory and not arg.default
Missing(named, kv) ==
    {named[k].name : k \in {i \in 1..Len(named) :
                                named[i].mandatory /\ named[i].default = NoValue}}
    \ KvNames(kv)

\* the loop "check for includes/excludes" over the entries of keyword_values,
\* where present are the names that count as set: the first entry whose
\* requires are not all present, or whose excludes are present, ends it
RelationsOver(named, keyword_values, present) ==
    LET badrel == FirstOf({k \in 1..Len(keyword_values) :
                      LET arg == NamedArg(named, keyword_values[k].name) IN
                      \/ arg.requires \ present # {}
                      \/ arg.excludes \cap present # {}})
        arg == NamedArg(named, keyword_values[badrel].name)
    IN
    IF badrel = 0 THEN ParseOk(keyword_values)
    ELSE IF arg.requires \ present # {}
    THEN [ParseFailed("ValueError", "requires", arg.name, Absent)
             EXCEPT !.co = arg.requires \ present]
    ELSE [ParseFailed("ValueError", "excludes", arg.name, Absent)
             EXCEPT !.co = arg.excludes \cap present]

\* a check that counts an argument with a default as set
Relations_withDefaults(named, keyword_values) ==
    RelationsOver(named, keyword_values,
                  KvNames(ApplyDefaults(named, 1, keyword_values)))

\* the check as _parse_args runs it, on the keys of keyword_values
Relations(named, keyword_values) ==
    RelationsOver(named, keyword_values, KvNames(keyword_values))

\* ArgumentParser._parse_args(*args, **kwargs); kwargs is a dict
_parse_args(named, args, kwargs) ==
    LET num_positional_args ==
            IF Positions(named) # {} THEN MaxOf(Positions(named)) + 1 ELSE 0
    IN
    IF Len(args) > num_positional_args
    THEN ParseFailed("ValueError", "too many", "", Absent)
    ELSE
    LET pos_values == [i \in 1..Len(args) |->
                          [name |-> PositionArg(named, i - 1).name, value |-> args[i]]]
        badkw == FirstOf({k \in 1..Len(kwargs) :
                     ~HasName(named, kwargs[k].name) \/ KvHas(pos_values, kwargs[k].name)})
    IN
    IF badkw # 0
    THEN IF ~HasName(named, kwargs[badkw].name)
         THEN ParseFailed("ValueError", "invalid keyword", kwargs[badkw].name, Absent)
         ELSE ParseFailed("ValueError", "repeated", kwargs[badkw].name, Absent)
    ELSE
    LET keyword_values == kwargs \o pos_values
        missing == Missing(named, keyword_values)
    IN
    IF missing # {}
    THEN ParseFailed("ValueError", "missing", "", Absent)
    ELSE
    LET badtype == FirstOf({k \in 1..Len(keyword_values) :
                      LET arg == NamedArg(named, keyword_values[k].name) IN
                      /\ arg.argtype # NoValue
                      /\ keyword_values[k].value # NoValue
                      /\ TypeInvalid(arg, keyword_values[k].value)})
    IN
    IF badtype # 0
    THEN ParseFailed("TypeError", "type", keyword_values[badtype].name, Absent)
    ELSE
    LET rel == Relations(named, keyword_values) IN
    IF rel.exc # "none" THEN rel
    ELSE Finish(named, keyword_values)

\* ArgumentParser.parse() of a parser whose class declares decls
ParseBody(decls, args, kwargs) ==
    LET r == _register_args(decls) IN
    IF r.exc # "none" THEN ParseFailed(r.exc, r.msg, "", Absent)
    ELSE IF r.named = <<>> THEN ParseFailed("ValueError", "no arguments", "", Absent)
    ELSE _parse_args(r.named, args, kwargs)

\* a parser class without declarations, not parsed yet: decls are the
\* declared specs, assigned counts the assignments to a spec's mandatory, and
\* the rest tells how the latest ArgumentOpts(...) or parse() ended
NoParser ==
    [decls |-> <<>>, assigned |-> 0, op |-> "none", exc |-> "none", msg |-> "",
     arg |-> "", shown |-> Absent, kv |-> <<>>, args |-> <<>>, kwargs |-> <<>>,
     kw |-> NoKw, co |-> {}]

\* ------------------------------------------- the JVM and the jaas files
\* the record of a connect(), load_driver() or Jvm.add_argument() call: how
\* it ended, in which step, what it found (the JVM running, the connect
\* function's driver_path, driver_class and flag, the class resolvable by
\* name), whether it returned the driver, and what it did to the JVM:
\* cpAdds counts Classpath.add, starts Jvm.start, resolves JClass(driver_class),
\* jarLoads Classpath.load_jar_class and argAdds the writes to Jvm.ARGS;
\* lateStarts, lateAdds and lateArgs count those done while the JVM ran
NoRun ==
    [op |-> "none", exc |-> "none", phase |-> "none", preRunning |-> FALSE,
     path |-> "None", cls |-> "None", ok |-> FALSE, byName |-> FALSE,
     found |-> FALSE,
     cpAdds |-> 0, starts |-> 0, resolves |-> 0, jarLoads |-> 0, argAdds |-> 0,
     lateStarts |-> 0, lateAdds |-> 0, lateArgs |-> 0]

\* the JVM of the process before anything touched it: classpath holds the
\* archives added, ARGS the identifiers of Jvm.ARGS, loadable the classes
\* JClass finds once the JVM runs, started the Jvm.start calls that returned;
\* props: the system properties set while it runs;
\* user: the driver is on the class path the user set up; miss: what JClass
\* raises for a class it does not find; jre: a JVM can be started
NoJvm ==
    [running |-> FALSE, classpath |-> {}, ARGS |-> {}, loadable |-> {},
     started |-> 0, props |-> {}, user |-> FALSE,
     miss |-> "ClassNotFoundException", jre |-> TRUE, call |-> NoRun]

\* the places a jaas file is written to, and a place without a file
JaasPaths == {"tmp", "cwd", "custom"}
NoFile == [exists |-> FALSE, r |-> FALSE, w |-> FALSE]

\* the record of a configure_jaas call: its argument, how it ended, the path
\* it returned, the paths it opened for writing, and what the earlier call
\* with the same argument returned, whether it wrote that file and whether
\* the file is still there to be read
NoJaasCall ==
    [op |-> "none", jaas_path |-> "None", exc |-> "none", ret |-> "None",
     opened |-> {}, wrote |-> FALSE, preRet |-> "None", preWrote |-> FALSE,
     preReadable |-> FALSE]

\* a disk without jaas files: file is each path's [exists, r, w] (it can be
\* opened for reading and for writing), dirw says its directory lets it be
\* created, generic that the configuration names no principal, and prev is
\* what the latest configure_jaas with each argument returned
NoFiles ==
    [file |-> [p \in JaasPaths |-> NoFile],
     dirw |-> [p \in JaasPaths |-> TRUE],
     generic |-> TRUE,
     prev |-> [a \in {"None", "custom"} |-> [ret |-> "None", wrote |-> FALSE]],
     call |-> NoJaasCall]

\* ------------------------------------------------------------- the state
World == [j |-> jconn, c |-> cursor]

\* the record of a call: what was called with what, the state it found, how it
\* ended and what it did on the foreign side
NoCall ==
    [op |-> "none", exc |-> "none", msg |-> "", failedAt |-> "none",
     preConnClosed |-> FALSE, preCurClosed |-> FALSE, preStmt |-> FALSE,
     sql |-> <<>>, params |-> NoParams, seq |-> <<>>, size |-> 0,
     prepares |-> 0, batched |-> 0, bo |-> "none", fallback |-> FALSE,
     execd |-> <<>>, counts |-> <<>>, truth |-> 0, known |-> FALSE, rows |-> <<>>,
     preRsOpen |-> FALSE, preMeta |-> FALSE, prePos |-> 0, preLeft |-> 0,
     names |-> <<>>, out |-> <<>>, isNone |-> FALSE,
     value |-> [t |-> "None", s |-> "", i |-> 0], column |-> "",
     decoded |-> [t |-> "None", s |-> "", i |-> 0],
     coltypes |-> <<>>, nulls |-> <<>>, resets |-> FALSE, flag |-> FALSE,
     values |-> <<>>, bound |-> <<>>]

Call(op, exc) ==
    [NoCall EXCEPT !.op = op, !.exc = exc,
                   !.preConnClosed = jconn.closed,
                   !.preCurClosed = cursor.created /\ ~cursor.connection,
                   !.preStmt = cursor.statement # NoHandle]

\* a call that reads the result set or its metadata: what it found
ReadCall(op, exc) ==
    [Call(op, exc) EXCEPT
        !.preRsOpen = cursor.resultset \in jconn.rsOpen,
        !.preMeta = cursor.metadata,
        !.prePos = IF cursor.resultset \in jconn.rsOpen
                   THEN jconn.rsPos[cursor.resultset] ELSE 0,
        !.preLeft = IF cursor.resultset \in jconn.rsOpen
                    THEN RowsLeft(jconn, cursor.resultset) ELSE 0]

FreshConnection ==
    [closed |-> FALSE, stmtOpen |-> {}, rsOpen |-> {},
     rsRows |-> [h \in Handles |-> 0], rsPos |-> [h \in Handles |-> 0]]

Init ==
    /\ jconn = FreshConnection
    /\ cursor = NoCursor
    /\ last = NoCall
    /\ argp = NoParser
    /\ jvm = NoJvm
    /\ fs = NoFiles

\* the closes a reset or close of this cursor can see fail
CloseChoices ==
    {cf \in CloseOutcomes : (cf.stmt => cursor.statement # NoHandle)
                            /\ (cf.rs => cursor.resultset # NoHandle)}

\* --------------------------------------------------------- JdbcConnection
\* java.sql.Connection.close() also releases its statements and result sets
ConnClose ==
    /\ IF jconn.closed
       THEN /\ last' = Call("conn.close", "Error")
            /\ UNCHANGED jconn
       ELSE /\ last' = Call("conn.close", "none")
            /\ jconn' = [FreshConnection EXCEPT !.closed = TRUE]
    /\ UNCHANGED cursor
    /\ UNCHANGED <<argp, jvm, fs>>

\* commit and rollback call straight into the driver, which raises on a
\* closed connection
ConnCommit ==
    /\ last' = Call("commit", IF jconn.closed THEN "SQLException" ELSE "none")
    /\ UNCHANGED <<jconn, cursor>>
    /\ UNCHANGED <<argp, jvm, fs>>

ConnRollback ==
    /\ last' = Call("rollback", IF jconn.closed THEN "SQLException" ELSE "none")
    /\ UNCHANGED <<jconn, cursor>>
    /\ UNCHANGED <<argp, jvm, fs>>

\* JdbcConnection.cursor: builds the cursor, whatever the connection's state
ConnCursor ==
    /\ ~cursor.created
    /\ cursor' = NewCursor(TRUE)
    /\ last' = Call("cursor", "none")
    /\ UNCHANGED jconn
    /\ UNCHANGED <<argp, jvm, fs>>

\* JdbcCursor(connection, type_conversion, rowcounts=False) built directly
CursorInit ==
    /\ ~cursor.created
    /\ cursor' = NewCursor(FALSE)
    /\ last' = Call("JdbcCursor", "none")
    /\ UNCHANGED jconn
    /\ UNCHANGED <<argp, jvm, fs>>

\* --------------------------------------------------------- cursor actions
CursorClose ==
    /\ cursor.created
    /\ \E cf \in CloseChoices :
         \E w \in {CursorCloseBody(World, cf)} :
         /\ jconn' = w.j
         /\ cursor' = w.c
         /\ last' = [Call("cursor.close", "none") EXCEPT
                        !.failedAt = IF cf.stmt \/ cf.rs THEN "close" ELSE "none"]
    /\ UNCHANGED <<argp, jvm, fs>>

Execute(sql, params, resp) ==
    /\ cursor.created
    /\ \E cf \in CloseChoices :
         \E o \in {ExecuteBody(World, sql, params, resp, cf)} :
         /\ ~o.stuck
         /\ jconn' = o.w.j
         /\ cursor' = o.w.c
         /\ last' = [Call("execute", o.exc) EXCEPT
                        !.msg = o.msg, !.failedAt = o.failedAt,
                        !.sql = sql, !.params = params, !.prepares = o.prepares,
                        !.truth = o.truth, !.known = o.known]
    /\ UNCHANGED <<argp, jvm, fs>>

ExecuteMany(sql, seq, bo, counts, resps, cf, cf2) ==
    /\ cursor.created
    /\ \E o \in {ExecuteManyBody(World, sql, seq, bo, counts, resps, cf, cf2)} :
       /\ ~o.stuck
       /\ jconn' = o.w.j
       /\ cursor' = o.w.c
       /\ last' = [Call("executemany", o.exc) EXCEPT
                      !.msg = o.msg, !.sql = sql, !.seq = seq,
                      !.prepares = o.prepares, !.batched = o.batched,
                      !.bo = IF cf # CloseOk THEN "reset"
                             ELSE IF cf2 THEN "trailing" ELSE bo,
                      !.fallback = o.fallback, !.execd = o.execd,
                      !.counts = o.counts, !.truth = o.truth, !.known = o.known]
    /\ UNCHANGED <<argp, jvm, fs>>

FetchOne ==
    /\ cursor.created
    /\ \E f \in {FetchOneBody(World)} :
       /\ jconn' = f.w.j
       /\ cursor' = f.w.c
       /\ last' = [Call("fetchone", f.exc) EXCEPT
                      !.rows = IF f.row = 0 THEN <<>> ELSE <<f.row>>]
    /\ UNCHANGED <<argp, jvm, fs>>

FetchMany(size) ==
    /\ cursor.created
    /\ \E f \in {FetchManyBody(World, size)} :
       /\ jconn' = f.w.j
       /\ cursor' = f.w.c
       /\ last' = [ReadCall("fetchmany", f.exc) EXCEPT !.rows = f.rows, !.size = size]
    /\ UNCHANGED <<argp, jvm, fs>>

FetchAll ==
    /\ cursor.created
    /\ \E f \in {FetchAllBody(World)} :
       /\ jconn' = f.w.j
       /\ cursor' = f.w.c
       /\ last' = [Call("fetchall", f.exc) EXCEPT !.rows = f.rows]
    /\ UNCHANGED <<argp, jvm, fs>>

\* ------------------------------------------------------------ the driver
\* The driver's part in one executemany: either the batch runs and
\* executeBatch returns counts, or an SQLException is raised at one place of
\* the batch attempt (a close of the leading reset, prepareStatement, addBatch,
\* executeBatch, the close of the trailing reset) and the executes of the
\* fallback get their answers, drawn from R.
ManyOracles(seq, R) ==
    {[bo |-> "none", counts |-> c, resps |-> [i \in 1..Len(seq) |-> CHOOSE r \in R : TRUE],
      cf |-> CloseOk, cf2 |-> FALSE] : c \in [1..Len(seq) -> 0..1]}
    \cup
    {[bo |-> x.bo, counts |-> [i \in 1..Len(seq) |-> 1], resps |-> r,
      cf |-> x.cf, cf2 |-> x.cf2] :
        r \in [1..Len(seq) -> R],
        x \in {[bo |-> b, cf |-> CloseOk, cf2 |-> FALSE] :
                  b \in BatchOutcomes \ {"none"}}
              \cup {[bo |-> "none", cf |-> f, cf2 |-> FALSE] :
                  f \in CloseChoices \ {CloseOk}}
              \cup {[bo |-> "none", cf |-> CloseOk, cf2 |-> TRUE]}}

\* --------------------------------------------------------- specification
FetchSizes == {-1} \cup 0..MaxFetch

\* the statements of the protocol runs: one without parameters, one whose
\* parameters fit and one whose parameters do not
Calls ==
    {[sql |-> <<"%s">>, params |-> p] : p \in {NoParams, SeqParams(1), SeqParams(2)}}

\* the executemany calls of the protocol runs, and the answers their
\* fallback's executes get: one affected row, or a rejected statement
ManyCalls ==
    {[sql |-> <<"%s">>, seq |-> q] :
        q \in {<<>>, <<SeqParams(1)>>, <<SeqParams(1), SeqParams(1)>>}}

FewResponses ==
    {r \in ExecResponses :
        (r.at = "execute" /\ r.exc = "SQLException")
        \/ (r.at = "none" /\ ~r.hasRS /\ r.n = 1 /\ r.counted)}

Next ==
    \/ ConnClose
    \/ ConnCommit
    \/ ConnRollback
    \/ ConnCursor
    \/ CursorInit
    \/ CursorClose
    \/ \E c \in Calls, resp \in ExecResponses : Execute(c.sql, c.params, resp)
    \/ \E c \in ManyCalls : \E d \in ManyOracles(c.seq, FewResponses) :
         ExecuteMany(c.sql, c.seq, d.bo, d.counts, d.resps, d.cf, d.cf2)
    \/ FetchOne
    \/ \E size \in FetchSizes : FetchMany(size)
    \/ FetchAll

Spec == Init /\ [][Next]_vars

\* ------------------------------------------- one call, every argument shape
\* The states a call can find the cursor in: a cursor built with or without
\* row counting that has run one statement, which the driver rejected, or
\* answered with a result set, or with an update count.
PriorResponses ==
    {r \in ExecResponses :
        (r.at = "prepare" /\ r.exc = "SQLException")
        \/ (r.at = "none" /\ r.n = 1 /\ r.counted)}

InitCall ==
    /\ last = NoCall
    /\ argp = NoParser
    /\ jvm = NoJvm
    /\ fs = NoFiles
    /\ \E rowcounts \in BOOLEAN, resp \in PriorResponses :
         \E o \in {ExecuteBody([j |-> FreshConnection, c |-> NewCursor(rowcounts)],
                               <<>>, NoParams, resp, CloseOk)} :
            /\ jconn = o.w.j
            /\ cursor = o.w.c

\* execute with every statement text and every parameter container
ExecuteOnce ==
    /\ last.op = "none"
    /\ \E sql \in SqlTexts, params \in ParamSets, resp \in ExecResponses :
         Execute(sql, params, resp)

NextParams == ExecuteOnce

SpecParams == InitCall /\ [][NextParams]_vars

\* executemany with parameter sets that are None, one positional value or one
\* named value, on a text of each placeholder style
ManyTexts == {<<"%s">>, <<"a">>, <<"?">>}
ManySets  == {NoParams, SeqParams(1), DictParams({"a"})}

\* the answers to the executes of the fallback: no, one or an untold number
\* of affected rows, or the statement rejected
ManyResponses ==
    {r \in ExecResponses :
        (r.at = "execute" /\ r.exc = "SQLException")
        \/ (r.at = "none" /\ ~r.hasRS /\ r.n <= 1 /\ (r.counted \/ r.n = 1))}

\* the sequences of parameter sets: every mix of up to two sets, and up to
\* MaxSets repetitions of one set
ManySeqs ==
    SeqsUpTo(ManySets, 2)
    \cup {[i \in 1..n |-> p] : p \in ManySets, n \in 0..MaxSets}

ExecuteManyOnce ==
    /\ last.op = "none"
    /\ \E sql \in ManyTexts, seq \in ManySeqs :
         \E d \in ManyOracles(seq, ManyResponses) :
            ExecuteMany(sql, seq, d.bo, d.counts, d.resps, d.cf, d.cf2)

NextMany == ExecuteManyOnce

SpecMany == InitCall /\ [][NextMany]_vars

\* ------------------------------------------------ JdbcCursor.column_names
\* A column name is the sequence of its dot-free parts: "orders.id" is
\* <<"orders", "id">>, "id" is <<"id">>.
ColParts == {"a", "b", "id", "total", "orders"}
ColNames == {<<p>> : p \in ColParts} \cup {<<p, c>> : p \in ColParts, c \in ColParts}

\* '.' in n
HasDot(n) == Len(n) > 1

\* n.split('.', 1)[-1]: what follows the first dot, or all of n without a dot
AfterFirstDot(n) == IF HasDot(n) THEN Tail(n) ELSE n

\* n.startswith(p + '.'), p a sequence of parts
StartsWithDotted(n, p) ==
    Len(n) > Len(p) /\ \A i \in 1..Len(p) : n[i] = p[i]

\* len(set(l))
Distinct(l) == Cardinality({l[i] : i \in 1..Len(l)})

\* a column_names that strips every prefix, ambiguous or not
ColumnNamesBody_stripAll(hasMeta, names) ==
    IF ~hasMeta \/ names = <<>> THEN [exc |-> "none", isNone |-> TRUE, out |-> <<>>]
    ELSE [exc |-> "none", isNone |-> FALSE,
          out |-> [i \in 1..Len(names) |-> AfterFirstDot(names[i])]]

\* JdbcCursor.column_names for the names the metadata reports
ColumnNamesBody(hasMeta, names) ==
    IF ~hasMeta \/ names = <<>> THEN [exc |-> "none", isNone |-> TRUE, out |-> <<>>]
    ELSE IF ~HasDot(names[1]) THEN [exc |-> "none", isNone |-> FALSE, out |-> names]
    ELSE LET prefix == AfterFirstDot(names[1]) IN
         IF \A i \in 1..Len(names) : StartsWithDotted(names[i], prefix)
         THEN \* names.replace on a list
              [exc |-> "AttributeError", isNone |-> FALSE, out |-> <<>>]
         ELSE IF \E i \in 1..Len(names) : ~HasDot(names[i])
         THEN \* n.split('.', 1)[1] of a name without a dot
              [exc |-> "IndexError", isNone |-> FALSE, out |-> <<>>]
         ELSE LET no_prefix == [i \in 1..Len(names) |-> Tail(names[i])] IN
              [exc |-> "none", isNone |-> FALSE,
               out |-> IF Distinct(no_prefix) = Len(names) THEN no_prefix ELSE names]

ColumnNames(names) ==
    /\ cursor.created
    /\ \E r \in {ColumnNamesBody(cursor.metadata, names)} :
         last' = [ReadCall("column_names", r.exc) EXCEPT
                     !.names = names, !.out = r.out, !.isNone = r.isNone]
    /\ UNCHANGED <<jconn, cursor>>
    /\ UNCHANGED <<argp, jvm, fs>>

\* column_names read once on a cursor after its first call, for every list of
\* up to MaxCols column names the metadata can report
ColumnNamesOnce ==
    /\ last.op = "none"
    /\ \E names \in SeqsUpTo(ColNames, MaxCols) : ColumnNames(names)

NextNames == ColumnNamesOnce

SpecNames == InitCall /\ [][NextNames]_vars

\* ------------------------------------------------ binding and py_value
\* A native value is [t: its type, s: its text (str, float), i: its number
\* (int, bool)]; None has type "None".
PyStr(x)   == [t |-> "str", s |-> x, i |-> 0]
PyFloat(x) == [t |-> "float", s |-> x, i |-> 0]
PyInt(n)   == [t |-> "int", s |-> "", i |-> n]
PyBool(b)  == [t |-> "bool", s |-> "", i |-> IF b THEN 1 ELSE 0]
PyNone     == [t |-> "None", s |-> "", i |-> 0]

\* the largest JInt and JByte; JInt is modelled 16 bits wide
JIntMax == 32767
JByteMax == 127

\* floats are named by their shortest text; Float32 is the narrowing of a
\* Java double to a Java float
FloatTexts == {"0.5", "0.1"}
Float32(x) == IF x = "0.5" THEN "0.5" ELSE "0.10000000149011612"

NativeValues ==
    {PyStr(x) : x \in {"", "a", "1"}}
    \cup {PyFloat(x) : x \in FloatTexts}
    \cup {PyInt(n) : n \in {-1, 0, 1, JIntMax, JIntMax + 1}}
    \cup {PyBool(b) : b \in BOOLEAN}

\* the class attributes of JdbcTypeConversion
JdbcTypes ==
    [VARCHAR     |-> [getter |-> "getString",  pytype |-> "str"],
     CHAR        |-> [getter |-> "getString",  pytype |-> "str"],
     LONGVARCHAR |-> [getter |-> "getString",  pytype |-> "str"],
     BIT         |-> [getter |-> "getBoolean", pytype |-> "bool"],
     BOOLEAN     |-> [getter |-> "getBoolean", pytype |-> "bool"],
     TINYINT     |-> [getter |-> "getByte",    pytype |-> "int"],
     SMALLINT    |-> [getter |-> "getInt",     pytype |-> "str"],
     INTEGER     |-> [getter |-> "getInt",     pytype |-> "str"],
     BIGINT      |-> [getter |-> "getInt",     pytype |-> "str"],
     REAL        |-> [getter |-> "getReal",    pytype |-> "str"],
     FLOAT       |-> [getter |-> "getFloat",   pytype |-> "float"],
     DOUBLE      |-> [getter |-> "getDouble",  pytype |-> "float"]]

\* the getters java.sql.ResultSet has
ResultSetGetters == {"getString", "getBoolean", "getByte", "getInt", "getFloat", "getDouble"}

\* the column types a value of each native type is stored in
ColumnsOf(t) ==
    CASE t = "str"   -> {"VARCHAR", "CHAR", "LONGVARCHAR"}
      [] t = "float" -> {"REAL", "FLOAT", "DOUBLE"}
      [] t = "int"   -> {"TINYINT", "SMALLINT", "INTEGER", "BIGINT"}
      [] t = "bool"  -> {"BIT", "BOOLEAN"}

\* the setter execute binds a parameter with: the isinstance tests in the
\* order of the code, where a bool is an instance of int
Bind(v) ==
    IF v.t = "str" THEN [setter |-> "setString", s |-> v.s, i |-> 0]
    ELSE IF v.t = "float" THEN [setter |-> "setDouble", s |-> v.s, i |-> 0]
    ELSE IF v.t \in {"int", "bool"}
         THEN IF v.i >= -JIntMax - 1 /\ v.i <= JIntMax
              THEN [setter |-> "setInt", s |-> "", i |-> v.i]
              ELSE [setter |-> "setLong", s |-> "", i |-> v.i]
    ELSE IF v.t = "bytes" THEN [setter |-> "setBytes", s |-> v.s, i |-> 0]
    ELSE [setter |-> "setObject", s |-> v.s, i |-> v.i]

\* the 32-bit value a getInt that narrows returns
Wrap32(n) == ((n + JIntMax + 1) % (2 * (JIntMax + 1))) - JIntMax - 1

\* what the getter returns for the stored column; narrow: a driver asked for
\* an int that does not fit narrows it instead of raising
Get(getter, b, narrow) ==
    IF getter \notin ResultSetGetters THEN [exc |-> "AttributeError", jv |-> PyNone]
    ELSE IF getter = "getString" THEN [exc |-> "none", jv |-> PyStr(b.s)]
    ELSE IF getter = "getBoolean" THEN [exc |-> "none", jv |-> PyBool(b.i # 0)]
    ELSE IF getter = "getDouble" THEN [exc |-> "none", jv |-> PyFloat(b.s)]
    ELSE IF getter = "getFloat" THEN [exc |-> "none", jv |-> PyFloat(Float32(b.s))]
    ELSE IF getter = "getByte" /\ (b.i > JByteMax \/ b.i < -JByteMax - 1)
         THEN [exc |-> "AttributeError", jv |-> PyNone]
    ELSE IF b.i > JIntMax \/ b.i < -JIntMax - 1
         THEN IF narrow THEN [exc |-> "none", jv |-> PyInt(Wrap32(b.i))]
              ELSE [exc |-> "AttributeError", jv |-> PyNone]
    ELSE [exc |-> "none", jv |-> PyInt(b.i)]

\* converter.pytype(jdbc_value)
Cast(pytype, jv) ==
    IF pytype = "str"
    THEN PyStr(IF jv.t = "int" THEN ToString(jv.i) ELSE jv.s)
    ELSE [jv EXCEPT !.t = pytype]

\* JdbcTypeConversion.py_value of a column holding what was bound; wasNull:
\* the result set's wasNull() when py_value is entered
py_value(column, b, wasNull, narrow) ==
    IF wasNull THEN [exc |-> "none", v |-> PyNone]
    ELSE LET converter == JdbcTypes[column]
             g == Get(converter.getter, b, narrow)
         IN  IF g.exc # "none" THEN [exc |-> g.exc, v |-> PyNone]
             ELSE [exc |-> "none", v |-> Cast(converter.pytype, g.jv)]

\* one value bound by execute, stored by the driver and decoded by fetchone
RoundTrip(v, column, wasNull, narrow) ==
    /\ cursor.created
    /\ \E r \in {py_value(column, Bind(v), wasNull, narrow)} :
         last' = [Call("roundtrip", r.exc) EXCEPT
                     !.value = v, !.column = column, !.decoded = r.v,
                     !.isNone = wasNull]
    /\ UNCHANGED <<jconn, cursor>>
    /\ UNCHANGED <<argp, jvm, fs>>

RoundTripOnce ==
    /\ last.op = "none"
    /\ \E v \in NativeValues, wasNull \in BOOLEAN, narrow \in BOOLEAN :
         \E column \in ColumnsOf(v.t) : RoundTrip(v, column, wasNull, narrow)

NextTypes == RoundTripOnce

SpecTypes == InitCall /\ [][NextTypes]_vars

\* ------------------------------------------------- execute and its setters
\* the values a caller passes: the native values, a bytes, None and a
\* Decimal
PyBytes(x) == [t |-> "bytes", s |-> x, i |-> 0]
BindValues ==
    NativeValues \cup {PyBytes("a"), PyNone, [t |-> "Decimal", s |-> "1.5", i |-> 0]}

\* the loop of execute over enumerate(params, start=1)
BindAll(values) ==
    [i \in 1..Len(values) |->
        [column |-> i, setter |-> Bind(values[i]).setter,
         s |-> Bind(values[i]).s, i |-> Bind(values[i]).i]]

\* execute(operation, values) of a statement with one %s for each value,
\* which the driver runs and answers with an update count
ExecuteValues(values) ==
    /\ last.op = "none"
    /\ cursor.created
    /\ \E o \in {ExecuteBody(World, [i \in 1..Len(values) |-> "%s"],
                             IF values = <<>> THEN NoParams
                             ELSE SeqParams(Len(values)),
                             [at |-> "none", exc |-> "none", hasRS |-> FALSE,
                              n |-> 1, counted |-> TRUE], CloseOk)} :
         /\ ~o.stuck
         /\ jconn' = o.w.j
         /\ cursor' = o.w.c
         /\ last' = [Call("execute", o.exc) EXCEPT
                        !.msg = o.msg, !.failedAt = o.failedAt,
                        !.prepares = o.prepares, !.truth = o.truth,
                        !.known = o.known, !.values = values,
                        !.bound = IF o.prepares = 1 THEN BindAll(values) ELSE <<>>]
    /\ UNCHANGED <<argp, jvm, fs>>

ExecuteValuesOnce ==
    \E values \in SeqsUpTo(BindValues, MaxParams) : ExecuteValues(values)

NextBind == ExecuteValuesOnce

SpecBind == InitCall /\ [][NextBind]_vars

\* ------------------------------------------- JdbcTypeConversion.TIMESTAMP
\* java.sql.Timestamp.getNanos() is in 0..MaxNanos
MaxNanos == 999999999

RECURSIVE Pow10(_)
Pow10(k) == IF k = 0 THEN 1 ELSE 10 * Pow10(k - 1)

\* len(str(n)) of an int n >= 0
RECURSIVE StrLen(_)
StrLen(n) == IF n < 10 THEN 1 ELSE 1 + StrLen(n \div 10)

\* int(str(n)[:6]): the number that the first six characters of the decimal
\* text of n spell
IntOfFirstSix(n) == IF StrLen(n) <= 6 THEN n ELSE n \div Pow10(StrLen(n) - 6)

\* the microsecond of the datetime that TIMESTAMP returns for a
\* java.sql.Timestamp with the nanoseconds nanos
TIMESTAMP(nanos) == [t |-> "datetime", s |-> "", i |-> IntOfFirstSix(nanos)]

\* nanoseconds of every length: m, m0, m00, ..
Nanos == {n \in {m * Pow10(k) : m \in 0..MaxMantissa, k \in 0..8} : n <= MaxNanos}
         \cup {123456789, MaxNanos}

\* py_value of a TIMESTAMP column that is not null
TimestampOnce ==
    /\ last.op = "none"
    /\ cursor.created
    /\ \E nanos \in Nanos :
         last' = [Call("TIMESTAMP", "none") EXCEPT
                     !.value = PyInt(nanos), !.column = "TIMESTAMP",
                     !.decoded = TIMESTAMP(nanos)]
    /\ UNCHANGED <<jconn, cursor>>
    /\ UNCHANGED <<argp, jvm, fs>>

NextTimestamp == TimestampOnce

SpecTimestamp == InitCall /\ [][NextTimestamp]_vars

\* ------------------------------------------------- fetchone and wasNull
\* the columns of the result set are INTEGER or VARCHAR; a column that is
\* not SQL NULL holds the int 1 or the str 'a'
RowTypes == {"INTEGER", "VARCHAR"}
StoredValue(column) ==
    IF column = "INTEGER" THEN Bind(PyInt(1)) ELSE Bind(PyStr("a"))

\* py_value on a result set whose wasNull() answers flag when py_value is
\* entered: the getter is called only past the first wasNull() test, and a
\* getter that is called sets the flag to whether its column is SQL NULL
DecodeColumn(column, isNull, flag) ==
    IF flag THEN [exc |-> "none", v |-> PyNone, flag |-> flag]
    ELSE IF isNull THEN [exc |-> "none", v |-> PyNone, flag |-> TRUE]
    ELSE [exc |-> py_value(column, StoredValue(column), FALSE, FALSE).exc,
          v |-> py_value(column, StoredValue(column), FALSE, FALSE).v,
          flag |-> FALSE]

\* the column loop of fetchone over the row whose columns are null where
\* nulls says so
RECURSIVE DecodeRow(_, _, _, _, _)
DecodeRow(coltypes, nulls, i, flag, row) ==
    IF i > Len(coltypes) THEN [exc |-> "none", row |-> row, flag |-> flag]
    ELSE LET d == DecodeColumn(coltypes[i], nulls[i], flag) IN
         IF d.exc # "none" THEN [exc |-> d.exc, row |-> row, flag |-> d.flag]
         ELSE DecodeRow(coltypes, nulls, i + 1, d.flag, Append(row, d.v))

\* fetchone on the result set described by last.coltypes and last.nulls;
\* last.resets: the driver's next() clears what wasNull() answers
FetchOneRow ==
    /\ last.op \in {"none", "fetchone"}
    /\ last.coltypes # <<>>
    /\ \E f \in {FetchOneBody(World)} :
         /\ f.exc = "none"
         /\ f.row # 0
         /\ jconn' = f.w.j
         /\ cursor' = f.w.c
         /\ \E d \in {DecodeRow(last.coltypes, last.nulls[f.row], 1,
                                last.flag /\ ~last.resets, <<>>)} :
              last' = [last EXCEPT !.op = "fetchone", !.exc = d.exc,
                                   !.rows = Append(@, f.row),
                                   !.out = Append(@, d.row),
                                   !.flag = d.flag]
    /\ UNCHANGED <<argp, jvm, fs>>

\* a cursor whose execute returned a result set of MaxRows rows and up to
\* MaxCols columns, any of them SQL NULL
InitRows ==
    /\ argp = NoParser
    /\ jvm = NoJvm
    /\ fs = NoFiles
    /\ \E o \in {ExecuteBody([j |-> FreshConnection, c |-> NewCursor(FALSE)],
                             <<>>, NoParams,
                             [at |-> "none", exc |-> "none", hasRS |-> TRUE,
                              n |-> MaxRows, counted |-> FALSE], CloseOk)} :
         /\ jconn = o.w.j
         /\ cursor = o.w.c
    /\ \E n \in 1..MaxCols, resets \in BOOLEAN :
         \E coltypes \in [1..n -> RowTypes],
            nulls \in [1..MaxRows -> [1..n -> BOOLEAN]] :
              last = [NoCall EXCEPT !.coltypes = coltypes, !.nulls = nulls,
                                    !.resets = resets]

NextRows == FetchOneRow

SpecRows == InitRows /\ [][NextRows]_vars

\* ------------------------------------------------- the argument parser
\* the specs a parser class can declare: x with a position or a type, y with
\* a position, a default, a function and choices, z with a position, a
\* default, and choices that are secret
KwX ==
    {[NoKw EXCEPT !.name = "x", !.position = p, !.argtype = t] :
        p \in {NoPosition, 0}, t \in {NoValue, "str", "(str,)"}}
KwY ==
    {[NoKw EXCEPT !.name = "y", !.position = p, !.default = d, !.mandatory = m,
                  !.fn = f, !.choices = c] :
        p \in {NoPosition, 1}, d \in {NoValue, "a"}, m \in BOOLEAN,
        f \in Fns, c \in {{}, {"b"}}}
KwZ ==
    {[NoKw EXCEPT !.name = "z", !.position = p, !.default = d,
                  !.secret = sc, !.choices = IF sc THEN {"a"} ELSE {}] :
        p \in {NoPosition, 2}, d \in {NoValue, "b"}, sc \in BOOLEAN}
\* what a subclass declares: its own x, which needs y and shuts out z
KwSub ==
    {[NoKw EXCEPT !.name = "x", !.argtype = "int", !.requires = {"y"},
                  !.excludes = {"z"}]}

DeclaredNames(level) ==
    {argp.decls[k].opts.name : k \in {i \in 1..Len(argp.decls) :
                                          argp.decls[i].level = level}}

\* the class bodies run in the order x, y, z of the base class, then the
\* subclass
Declarable ==
    {[level |-> "base", kw |-> kw] : kw \in KwX \cup KwY \cup KwZ}
    \cup {[level |-> "sub", kw |-> kw] : kw \in KwSub}

InOrder(d) ==
    /\ d.kw.name \notin DeclaredNames(d.level)
    /\ d.level = "base" =>
          /\ DeclaredNames("sub") = {}
          /\ \A n \in DeclaredNames("base") :
                <<n, d.kw.name>> \in {<<"x", "y">>, <<"x", "z">>, <<"y", "z">>}

\* a class body evaluates ArgumentOpts(**kw); the spec it returns becomes a
\* class attribute
Declare(level, kw) ==
    /\ argp.op # "parse"
    /\ InOrder([level |-> level, kw |-> kw])
    /\ \E r \in {ArgumentOpts(kw)} :
         argp' = [argp EXCEPT
                    !.op = "ArgumentOpts", !.exc = r.exc, !.kw = kw,
                    !.decls = IF r.exc = "none"
                              THEN Append(@, [level |-> level, opts |-> r.opts])
                              ELSE @]
    /\ UNCHANGED <<jconn, cursor, last, jvm, fs>>

\* opts.mandatory = is_mandatory on the k-th declared spec
SetMandatory(k, is_mandatory) ==
    /\ argp.op # "parse"
    /\ argp.assigned < MaxAssign
    /\ k \in 1..Len(argp.decls)
    /\ argp.decls[k].opts.mandatory # is_mandatory
    /\ argp' = [argp EXCEPT !.op = "mandatory", !.exc = "none",
                            !.kw = argp.decls[k].opts,
                            !.assigned = @ + 1,
                            !.decls = [@ EXCEPT ![k].opts.mandatory = is_mandatory]]
    /\ UNCHANGED <<jconn, cursor, last, jvm, fs>>

\* the calls of the parser: positional values and at most one keyword, or
\* the keywords x and y, x and z, or all three
ParseInputs ==
    {[args |-> a, kwargs |-> <<>>] :
        a \in {<<>>, <<"a">>, <<"1">>, <<"a", "a">>, <<"class str", "1">>,
               <<"a", "a", "a">>, <<"a", "a", "a", "a">>}}
    \cup
    {[args |-> <<>>, kwargs |-> <<[name |-> n, value |-> v]>>] :
        n \in {"x", "y", "z", "w"}, v \in {"a", "b", NoValue}}
    \cup
    {[args |-> <<"a">>, kwargs |-> <<[name |-> n, value |-> "b"]>>] :
        n \in {"x", "z"}}
    \cup
    {[args |-> <<>>, kwargs |-> kw] :
        kw \in {<<[name |-> "x", value |-> "a"], [name |-> "y", value |-> "b"]>>,
                <<[name |-> "x", value |-> "a"], [name |-> "z", value |-> "a"]>>,
                <<[name |-> "x", value |-> "a"], [name |-> "y", value |-> "b"],
                  [name |-> "z", value |-> "a"]>>}}

\* ParserClass(*args, **kwargs).parse()
Parse(args, kwargs) ==
    /\ argp.op # "parse"
    /\ \E r \in {ParseBody(argp.decls, args, kwargs)} :
         argp' = [argp EXCEPT
                    !.op = "parse", !.exc = r.exc, !.msg = r.msg, !.arg = r.arg,
                    !.shown = r.shown, !.kv = r.kv, !.args = args,
                    !.kwargs = kwargs, !.kw = NoKw, !.co = r.co]
    /\ UNCHANGED <<jconn, cursor, last, jvm, fs>>

NextArgs ==
    \/ \E d \in Declarable : Declare(d.level, d.kw)
    \/ \E k \in 1..3, m \in BOOLEAN : SetMandatory(k, m)
    \/ \E i \in ParseInputs : Parse(i.args, i.kwargs)

SpecArgs == Init /\ [][NextArgs]_vars

\* ------------------------------------------------- ConnectFunction and Jvm
\* driver_class is None or the class name "D"; driver_path is None, a path
\* that is no file, or an archive: good.jar holds the class D, other.jar
\* does not
DriverClasses == {NoValue, "D"}
Jars == {"good.jar", "other.jar"}
DriverPaths == {NoValue, "nofile"} \cup Jars
ClassesIn(path) == IF path = "good.jar" THEN {"D"} ELSE {}

\* isfile(path) or isdir(path)
IsFileOrDir(path) == path \in Jars

\* a class object
PyClass(name) == [t |-> "type", s |-> name, i |-> 0]

\* bool(v)
Truthy(v) ==
    CASE v.t = "None" -> FALSE
      [] v.t = "bool" -> v.i # 0
      [] v.t = "str"  -> v.s # ""
      [] OTHER        -> TRUE

\* the attributes ConnectFunction.__init__ sets: the cursor class is
\* JdbcCursor, runtime_invocation_ok has to be a bool
ConnectFunctions ==
    {[_driver_path |-> p, _driver_class |-> c,
      _cursor_class |-> PyClass("JdbcCursor"),
      _runtime_invocation_ok |-> PyBool(ok)] :
        p \in DriverPaths, c \in DriverClasses, ok \in BOOLEAN}

\* the property ConnectFunction.runtime_invocation_ok, which returns the
\* cursor class and not the flag its setter stored
runtime_invocation_ok(cf) == cf._cursor_class

\* a check that never sees the JVM running
is_running_never(r) == FALSE

\* Jvm.is_running()
is_running(r) == r.running

\* Classpath.add(path)
Classpath_add(r, path) ==
    [r EXCEPT !.classpath = @ \cup {path},
              !.call.cpAdds = @ + 1,
              !.call.lateAdds = IF r.running THEN @ + 1 ELSE @]

\* Jvm.start(): jpype.startJVM raises OSError when the JVM is started already
\* and JVMNotFoundException when there is none to start; a JVM that starts
\* finds the classes of the user's class path and of the archives added
Jvm_start(r) ==
    LET c == [r EXCEPT !.call.starts = @ + 1,
                       !.call.lateStarts = IF r.running THEN @ + 1 ELSE @]
    IN  IF r.running THEN [r |-> c, exc |-> "OSError"]
        ELSE IF ~r.jre THEN [r |-> c, exc |-> "JVMNotFoundException"]
        ELSE [r |-> [c EXCEPT !.running = TRUE,
                              !.started = @ + 1,
                              !.loadable = (IF r.user THEN {"D"} ELSE {})
                                           \cup UNION {ClassesIn(p) : p \in r.classpath}],
              exc |-> "none"]

\* the options of Jvm.add_argument and option.startswith('-D') or ('-X')
JvmOptions == {"-Dk=v", "-Xmx1g", "k=v"}
OptionOk(option) == option \in {"-Dk=v", "-Xmx1g"}
JvmIdentifiers == {"k", "mx"}

\* Jvm.add_argument(identifier, option)
Jvm_add_argument(r, identifier, option) ==
    IF is_running(r) THEN [r |-> r, exc |-> "RuntimeError"]
    ELSE IF ~OptionOk(option) THEN [r |-> r, exc |-> "ValueError"]
    ELSE [r |-> [r EXCEPT !.ARGS = @ \cup {identifier},
                          !.call.argAdds = @ + 1,
                          !.call.lateArgs = IF r.running THEN @ + 1 ELSE @],
          exc |-> "none"]

\* how load_driver ends
Raised(r, exc) == [r |-> r, exc |-> exc, driver |-> FALSE]
Returned(r) == [r |-> r, exc |-> "none", driver |-> TRUE]

\* try: JClass(name) with an except clause for the exceptions in caught
TryJClass(r, name, caught) ==
    LET c == [r EXCEPT !.call.resolves = @ + 1]
    IN  IF name \in r.loadable THEN [r |-> c, out |-> "driver"]
        ELSE IF r.miss \in caught THEN [r |-> c, out |-> "caught"]
        ELSE [r |-> c, out |-> r.miss]

\* Classpath.load_jar_class(jar_path, class_name) in its try statement: a
\* path of None and a class the archive does not hold both raise an
\* exception the except clause names
load_jar_class(r, jar_path, class_name) ==
    LET c == [r EXCEPT !.call.jarLoads = @ + 1]
    IN  IF jar_path # NoValue /\ class_name \in ClassesIn(jar_path)
        THEN Returned(c)
        ELSE Raised(c, "DriverNotFoundError")

\* load_driver from the test `not Jvm.is_running() and not self.driver_path`
LoadAfterLookup(r, cf) ==
    IF ~is_running(r) /\ cf._driver_path = NoValue
    THEN LET s == Jvm_start(r) IN
         IF s.exc # "none" THEN Raised(s.r, s.exc)
         ELSE LET t == TryJClass(s.r, cf._driver_class, {"ClassNotFoundException"}) IN
              IF t.out = "driver" THEN Returned(t.r)
              ELSE IF t.out = "caught" THEN Raised(t.r, "DriverNotFoundError")
              ELSE Raised(t.r, t.out)
    ELSE IF ~is_running(r)
    THEN LET s == Jvm_start(Classpath_add(r, cf._driver_path)) IN
         IF s.exc # "none" THEN Raised(s.r, s.exc)
         ELSE LET t == TryJClass(s.r, cf._driver_class,
                                 {"TypeError", "ClassNotFoundException"}) IN
              IF t.out = "driver" THEN Returned(t.r)
              ELSE Raised(t.r, "DriverNotFoundError")
    ELSE IF ~Truthy(runtime_invocation_ok(cf))
    THEN Raised(r, "RuntimeError")
    ELSE load_jar_class(r, cf._driver_path, cf._driver_class)

\* ConnectFunction.load_driver()
load_driver(r, cf) ==
    IF cf._driver_path # NoValue /\ ~IsFileOrDir(cf._driver_path)
    THEN Raised(r, "ValueError")
    ELSE IF cf._driver_class = NoValue
    THEN Raised(r, "ValueError")
    ELSE LET t == IF is_running(r)
                  THEN TryJClass(r, cf._driver_class, {"ClassNotFoundException"})
                  ELSE [r |-> r, out |-> "caught"]
         IN  IF t.out = "driver" THEN Returned(t.r)
             ELSE IF t.out = "caught" THEN LoadAfterLookup(t.r, cf)
             ELSE Raised(t.r, t.out)

\* a connect that loads the driver before it parses its arguments
ConnectBody_driverFirst(r, decls, cf, args, kwargs) ==
    LET d == load_driver(r, cf)
        p == ParseBody(decls, args, kwargs)
    IN  IF d.exc # "none" THEN [d EXCEPT !.r.call.phase = "load_driver"]
        ELSE IF p.exc # "none"
        THEN Raised([d.r EXCEPT !.call.phase = "parse_args"], p.exc)
        ELSE [d EXCEPT !.r.call.phase = "get_connection"]

\* ConnectFunction.connect(*args, **kwargs): parse_args, whose handle_args
\* does nothing, then load_driver, then the get_connection of the subclass
ConnectBody(r, decls, cf, args, kwargs) ==
    LET p == ParseBody(decls, args, kwargs) IN
    IF p.exc # "none"
    THEN Raised([r EXCEPT !.call.phase = "parse_args"], p.exc)
    ELSE LET d == load_driver(r, cf) IN
         IF d.exc # "none" THEN [d EXCEPT !.r.call.phase = "load_driver"]
         ELSE [d EXCEPT !.r.call.phase = "get_connection"]

\* a call begins: what it finds
StartCall(r, op, cf) ==
    [r EXCEPT !.call = [NoRun EXCEPT
        !.op = op, !.preRunning = r.running, !.path = cf._driver_path,
        !.cls = cf._driver_class,
        !.ok = Truthy(cf._runtime_invocation_ok),
        !.byName = cf._driver_class \in r.loadable]]

EndCall(o) == [o.r EXCEPT !.call.exc = o.exc, !.call.found = o.driver]

\* connect(*args, **kwargs) of a connect function
Connect(cf, args, kwargs) ==
    /\ \E o \in {ConnectBody(StartCall(jvm, "connect", cf), argp.decls, cf,
                             args, kwargs)} :
         jvm' = EndCall(o)
    /\ UNCHANGED <<jconn, cursor, last, argp, fs>>

\* load_driver() of a connect function
LoadDriver(cf) ==
    /\ \E o \in {load_driver(StartCall(jvm, "load_driver", cf), cf)} :
         jvm' = EndCall([o EXCEPT !.r.call.phase = "load_driver"])
    /\ UNCHANGED <<jconn, cursor, last, argp, fs>>

\* Jvm.add_argument(identifier, option)
AddArgument(identifier, option) ==
    /\ \E o \in {Jvm_add_argument(
                    [jvm EXCEPT !.call = [NoRun EXCEPT !.op = "add_argument",
                                              !.preRunning = jvm.running]],
                    identifier, option)} :
         jvm' = [o.r EXCEPT !.call.exc = o.exc]
    /\ UNCHANGED <<jconn, cursor, last, argp, fs>>

\* the parser classes of the connect functions: the base ArgumentParser,
\* which declares nothing, and one with a positional str argument x and an
\* optional y
ParserClasses ==
    {<<>>,
     <<[level |-> "base",
        opts |-> ArgumentOpts([NoKw EXCEPT !.name = "x", !.position = 0,
                                           !.argtype = "str"]).opts],
       [level |-> "base",
        opts |-> ArgumentOpts([NoKw EXCEPT !.name = "y", !.default = "a"]).opts]>>}

ConnectInputs ==
    {[args |-> a, kwargs |-> <<>>] : a \in {<<>>, <<"a">>, <<"1">>, <<"a", "b">>}}
    \cup {[args |-> <<"a">>, kwargs |-> <<[name |-> n, value |-> "b"]>>] :
            n \in {"y", "w"}}

\* a process whose JVM is not started: what the user's class path holds,
\* what jpype raises for a missing class and whether a JVM is installed
InitConnect ==
    /\ jconn = FreshConnection
    /\ cursor = NoCursor
    /\ last = NoCall
    /\ fs = NoFiles
    /\ \E decls \in ParserClasses : argp = [NoParser EXCEPT !.decls = decls]
    /\ \E user \in BOOLEAN, jre \in BOOLEAN,
          miss \in {"ClassNotFoundException", "TypeError"} :
         jvm = [NoJvm EXCEPT !.user = user, !.jre = jre, !.miss = miss]

NextConnect ==
    \/ \E cf \in ConnectFunctions, i \in ConnectInputs :
          Connect(cf, i.args, i.kwargs)
    \/ \E cf \in ConnectFunctions : LoadDriver(cf)
    \/ \E identifier \in JvmIdentifiers, option \in JvmOptions :
          AddArgument(identifier, option)

SpecConnect == InitConnect /\ [][NextConnect]_vars

\* ---------------------------------------------------------- configure_jaas
\* jaas_path is None or a path of the caller; without it the candidates are
\* the file in the temporary directory and the one in the working directory,
\* both named by the checksum of the configuration text
JaasArgs == {NoValue, "custom"}
Candidates(jaas_path) ==
    IF jaas_path = NoValue THEN <<"tmp", "cwd">> ELSE <<jaas_path>>

\* open(path, 'w') succeeds: on a file that can be written, or where the
\* directory lets the file be created
CanWrite(f, path) ==
    IF f.file[path].exists THEN f.file[path].w ELSE f.dirw[path]

\* the loop that writes the configuration: the first candidate that opens
\* for writing is written and returned, the last one that fails raises;
\* opened are the paths open(.., 'w') was called on
RECURSIVE WriteLoop(_, _, _, _)
WriteLoop(f, paths, i, opened) ==
    IF CanWrite(f, paths[i])
    THEN [file |-> [f.file EXCEPT ![paths[i]] =
                      [exists |-> TRUE,
                       r |-> IF f.file[paths[i]].exists
                             THEN (f.generic \/ f.file[paths[i]].r) ELSE TRUE,
                       w |-> TRUE]],
          exc |-> "none", ret |-> paths[i], opened |-> opened \cup {paths[i]},
          wrote |-> TRUE]
    ELSE IF i >= Len(paths)
    THEN [file |-> f.file, exc |-> "PermissionError", ret |-> NoValue,
          opened |-> opened \cup {paths[i]}, wrote |-> FALSE]
    ELSE WriteLoop(f, paths, i + 1, opened \cup {paths[i]})

\* the loop that looks for a file to use again, which ends after its first
\* candidate: an existing file is taken, also one that cannot be read unless
\* it is the last candidate
ReadLoop(f, paths) ==
    IF ~f.file[paths[1]].exists THEN [exc |-> "none", jaas_read_path |-> NoValue]
    ELSE IF ~f.file[paths[1]].r /\ 1 >= Len(paths)
    THEN [exc |-> "PermissionError", jaas_read_path |-> NoValue]
    ELSE [exc |-> "none", jaas_read_path |-> paths[1]]

\* configure_jaas(jaas_path=jaas_path) up to the file it settles on
JaasFile(f, jaas_path) ==
    LET jaas_paths == Candidates(jaas_path)
        found == ReadLoop(f, jaas_paths)
    IN  IF found.exc # "none"
        THEN [file |-> f.file, exc |-> found.exc, ret |-> NoValue, opened |-> {},
              wrote |-> FALSE]
        ELSE IF found.jaas_read_path # NoValue
        THEN [file |-> f.file, exc |-> "none", ret |-> found.jaas_read_path,
              opened |-> {}, wrote |-> FALSE]
        ELSE WriteLoop(f, jaas_paths, 1, {})

\* the end of configure_jaas: the path goes to the JVM as a start argument,
\* or as a system property when the JVM runs
JaasToJvm(r) ==
    IF ~is_running(r)
    THEN Jvm_add_argument(r, "java.security.auth.login.config",
                          "-Djava.security.auth.login.config")
    ELSE [r |-> [r EXCEPT !.props = @ \cup {"java.security.auth.login.config"}],
          exc |-> "none"]

\* configure_jaas(jaas_path=jaas_path)
ConfigureJaas(jaas_path) ==
    /\ \E o \in {JaasFile(fs, jaas_path)} :
         /\ fs' = [fs EXCEPT
                     !.file = o.file,
                     !.prev[jaas_path] =
                         IF o.exc = "none"
                         THEN [ret |-> o.ret,
                               wrote |-> o.wrote \/ (@.wrote /\ @.ret = o.ret)]
                         ELSE @,
                     !.call = [op |-> "configure_jaas", jaas_path |-> jaas_path,
                               exc |-> o.exc, ret |-> o.ret, opened |-> o.opened,
                               wrote |-> o.wrote,
                               preRet |-> fs.prev[jaas_path].ret,
                               preWrote |-> fs.prev[jaas_path].wrote,
                               preReadable |->
                                   /\ fs.prev[jaas_path].ret # NoValue
                                   /\ fs.file[fs.prev[jaas_path].ret].exists
                                   /\ fs.file[fs.prev[jaas_path].ret].r]]
         /\ jvm' = IF o.exc # "none" THEN jvm
                   ELSE JaasToJvm([jvm EXCEPT !.call =
                            [NoRun EXCEPT !.op = "configure_jaas",
                                          !.preRunning = jvm.running]]).r
    /\ UNCHANGED <<jconn, cursor, last, argp>>

\* os.chmod(path, mode) by the user of the library: S_IREAD makes the file
\* read-only, 0 takes every permission
Chmod(path, readable) ==
    /\ fs.file[path].exists
    /\ fs.file[path] # [exists |-> TRUE, r |-> readable, w |-> FALSE]
    /\ fs' = [fs EXCEPT !.file[path] = [exists |-> TRUE, r |-> readable, w |-> FALSE],
                        !.call.op = "chmod"]
    /\ UNCHANGED <<jconn, cursor, last, argp, jvm>>

\* os.unlink(path)
Unlink(path) ==
    /\ fs.file[path].exists
    /\ fs.dirw[path]
    /\ fs' = [fs EXCEPT !.file[path] = NoFile, !.call.op = "unlink"]
    /\ UNCHANGED <<jconn, cursor, last, argp, jvm>>

\* the process before configure_jaas: the JVM started or not, the generic
\* configuration or one with a principal, and directories that let the
\* candidate be created or not
InitJaas ==
    /\ jconn = FreshConnection
    /\ cursor = NoCursor
    /\ last = NoCall
    /\ argp = NoParser
    /\ jvm \in {NoJvm, [Jvm_start(NoJvm).r EXCEPT !.call = NoRun]}
    /\ \E generic \in BOOLEAN, tmpw \in BOOLEAN, cwdw \in BOOLEAN :
         fs = [NoFiles EXCEPT !.generic = generic,
                              !.dirw = [@ EXCEPT !["tmp"] = tmpw, !["cwd"] = cwdw]]

NextJaas ==
    \/ \E jaas_path \in JaasArgs : ConfigureJaas(jaas_path)
    \/ \E path \in JaasPaths, readable \in BOOLEAN : Chmod(path, readable)
    \/ \E path \in JaasPaths : Unlink(path)

SpecJaas == InitJaas /\ [][NextJaas]_vars

\* ================================================================ claims
OpenAtCall == ~last.preConnClosed /\ ~last.preCurClosed

\* C1: a second close() of a connection, and a second close() of a cursor,
\* ends with the pyjdbc Error and never returns normally.
C1_SecondCloseFails ==
    (\/ last.op = "conn.close" /\ last.preConnClosed
     \/ last.op = "cursor.close" /\ last.preCurClosed)
    => last.exc = "Error"

\* C2: on a closed connection close, commit, rollback, cursor and a cursor's
\* execute all end with the pyjdbc Error.
C2_ClosedConnectionRejects ==
    (last.preConnClosed
     /\ last.op \in {"conn.close", "commit", "rollback", "cursor", "execute"})
    => last.exc = "Error"

\* C3: whatever was called, the only open foreign statement is the one the
\* cursor holds and the only open result set is the one it holds: what an
\* execute or executemany replaced has been closed.
C3_NoLeakedHandle ==
    /\ jconn.stmtOpen \subseteq {cursor.statement}
    /\ jconn.rsOpen \subseteq {cursor.resultset}

\* an execute that found a statement held has prepared the next one
C3_Witness ==
    /\ last.op = "execute" /\ last.preStmt /\ last.prepares = 1 /\ last.exc = "none"
    /\ cursor.statement # NoHandle
    /\ jconn.stmtOpen = {cursor.statement}

\* C4: on a closed cursor execute, executemany and the fetches end with the
\* pyjdbc Error (DatabaseError is one) and with nothing else.
C4_ClosedCursorRejects ==
    (last.preCurClosed
     /\ last.op \in {"execute", "executemany", "fetchone", "fetchmany", "fetchall"})
    => last.exc \in {"Error", "DatabaseError"}

\* the positional call whose marker count differs from its value count, on an
\* open cursor whose reset went through
C5_Scope ==
    /\ last.op = "execute" /\ last.params.kind = "seq"
    /\ Count(last.sql, "%s") # last.params.n
    /\ OpenAtCall /\ last.failedAt # "close"

C6_NamedParamsChecked ==
    (last.op = "execute" /\ last.params.kind = "dict" /\ last.params.keys # {}
     /\ OpenAtCall /\ last.failedAt # "close")
    => /\ ~(Refs(last.sql) \subseteq last.params.keys)
            => (last.exc = "ValueError" /\ last.msg = "missing")
       /\ (Refs(last.sql) \subseteq last.params.keys
           /\ ~(last.params.keys \subseteq Refs(last.sql)))
            => (last.exc = "ValueError" /\ last.msg = "unused")
       /\ last.prepares > 0 => Refs(last.sql) = last.params.keys

\* C7: a failure the driver raises while execute prepares or executes the
\* statement reaches the caller as ProgrammingError.
C7_DriverFailureWrapped ==
    (last.op = "execute" /\ last.failedAt \in {"prepare", "execute"})
    => last.exc = "ProgrammingError"

\* C8: when the driver raises nowhere in the batch attempt, executemany with
\* N >= 1 parameter sets that each fit the statement queues all N on one
\* prepared statement and leaves the sum of the batch counts in rowcount.
C8_BatchQueuesEverySet ==
    (/\ last.op = "executemany" /\ last.bo = "none" /\ OpenAtCall
     /\ Len(last.seq) >= 1
     /\ \A i \in 1..Len(last.seq) :
           /\ last.seq[i].kind # "None"
           /\ _parse_params(last.sql, last.seq[i]).exc = "none")
    => /\ last.exc = "none" /\ ~last.fallback
       /\ last.prepares = 1 /\ last.batched = Len(last.seq)
       /\ cursor.rowcount = last.truth

SumPositive(s) ==
    LET RECURSIVE Sum(_)
        Sum(i) == IF i = 0 THEN 0 ELSE (IF s[i] > 0 THEN s[i] ELSE 0) + Sum(i - 1)
    IN  Sum(Len(s))

\* an executemany that fell back to single executes and returned
C9_Scope == last.op = "executemany" /\ last.fallback /\ last.exc = "none"

\* C9 as stated: the fallback executes every set once, in order, and leaves
\* the sum of the positive row counts of those executes in rowcount.
C9_FallbackSumsPositive ==
    C9_Scope => /\ last.execd = last.seq
                /\ cursor.rowcount = SumPositive(last.counts)

\* C9 amended: that is the rowcount of a cursor that counts rows; a cursor
\* built with rowcounts=False is left with -1.
C9_FallbackSumsPositiveIfCounting ==
    C9_Scope => /\ last.execd = last.seq
                /\ Len(last.counts) = Len(last.seq)
                /\ cursor.rowcount = IF cursor.get_rowcounts
                                     THEN SumPositive(last.counts) ELSE -1

\* sets affecting 1, 1 and 0 rows: rowcount 2
C9_Witness ==
    /\ C9_Scope /\ last.counts = <<1, 1, 0>> /\ last.bo # "none"
    /\ cursor.get_rowcounts /\ cursor.rowcount = 2

\* C10: after an execute or executemany rowcount is -1, or it is the number of
\* rows the call returned or affected and the driver told that number.
C10_RowcountExactOrUnknown ==
    (last.op \in {"execute", "executemany"} /\ last.exc = "none")
    => \/ cursor.rowcount = -1
       \/ (last.known /\ cursor.rowcount = last.truth)

Min(a, b) == IF a <= b THEN a ELSE b

\* the rows fetchmany is asked for: its size, or batch_size when size is None
Asked == IF last.size = -1 THEN batch_size ELSE last.size

C12_PrefixAlwaysStripped ==
    (last.op = "column_names" /\ last.preMeta)
    => /\ last.names = << <<"orders", "id">>, <<"orders", "total">> >>
          => (last.exc = "none" /\ last.out = << <<"id">>, <<"total">> >>)
       /\ last.names = << <<"a", "id">>, <<"b", "id">> >>
          => (last.exc = "none" /\ last.out = << <<"id">>, <<"id">> >>)

\* C12: metadata ["orders.id", "orders.total"] reads as ["id", "total"];
\* metadata ["a.id", "b.id"], whose unprefixed names collide, reads unchanged
\* as ["a.id", "b.id"]; in general, when column_names returns names for
\* prefixed columns they are all unprefixed if those are distinct and all as
\* reported otherwise.
C12_PrefixKeptWhenAmbiguous ==
    (last.op = "column_names" /\ last.preMeta)
    => /\ last.names = << <<"orders", "id">>, <<"orders", "total">> >>
          => (last.exc = "none" /\ last.out = << <<"id">>, <<"total">> >>)
       /\ last.names = << <<"a", "id">>, <<"b", "id">> >>
          => (last.exc = "none" /\ last.out = last.names)
       /\ (last.exc = "none" /\ ~last.isNone
            /\ \A i \in 1..Len(last.names) : HasDot(last.names[i]))
          => LET stripped == [i \in 1..Len(last.names) |-> Tail(last.names[i])]
             IN  last.out = IF Distinct(stripped) = Len(last.names)
                            THEN stripped ELSE last.names

\* column_names was read for ["a.id", "b.id"] and kept both prefixes
C12_Witness ==
    /\ last.op = "column_names" /\ last.preMeta /\ last.exc = "none"
    /\ last.names = << <<"a", "id">>, <<"b", "id">> >>
    /\ last.out = << <<"a", "id">>, <<"b", "id">> >>

\* the columns C13 pairs with each native type, and the values they can hold
C13_Column ==
    CASE last.value.t = "float" -> last.column \in {"DOUBLE", "FLOAT"}
      [] last.value.t = "int"   -> \/ last.column = "BIGINT"
                                   \/ last.column = "INTEGER"
                                      /\ last.value.i <= JIntMax
                                      /\ last.value.i >= -JIntMax - 1
      [] last.value.t = "bool"  -> last.column = "BOOLEAN"
      [] last.value.t = "str"   -> last.column = "VARCHAR"
      [] OTHER -> FALSE

\* C13: a float, int, bool or str bound by execute and decoded by py_value
\* from a DOUBLE/FLOAT, INTEGER/BIGINT, BOOLEAN or VARCHAR column that can
\* hold it comes back equal and of the same native type.
C13_RoundTrip ==
    (last.op = "roundtrip" /\ C13_Column)
    => (last.exc = "none" /\ last.decoded = last.value)

\* the specs the parse registered, and the values its call supplied
Named == [k \in 1..Len(MroOrder(argp.decls)) |-> MroOrder(argp.decls)[k].opts]
Supplied ==
    argp.kwargs \o [i \in 1..Len(argp.args) |->
                      [name |-> PositionArg(Named, i - 1).name, value |-> argp.args[i]]]
\* the parse got past the keyword and mandatory checks
PastMandatory ==
    /\ argp.op = "parse"
    /\ argp.exc = "none" \/ argp.msg \in {"type", "requires", "excludes", "fn type", "choices"}

\* the three specs of the base class have the positions 0, 1 and 2, and the
\* call gives two positional values and no keyword for the third
C14_Scope ==
    /\ argp.op = "parse"
    /\ Len(argp.decls) = 3
    /\ \A k \in 1..3 : argp.decls[k].level = "base"
                        /\ argp.decls[k].opts.position = k - 1
    /\ Len(argp.args) = 2
    /\ ~KvHas(argp.kwargs, "z")

\* C14 as stated: with positions {0, 1, 2}, two positional values and no
\* keyword for the third argument, parse succeeds and leaves the third name
\* out of the bag unless its spec has a default.
C14_TwoOfThreeAccepted ==
    C14_Scope
    => /\ argp.exc = "none"
       /\ argp.decls[3].opts.default = NoValue => ~KvHas(argp.kv, "z")

\* C14: with positions {0, 1, 2}, the third spec mandatory as its position
\* made it, two positional values and no keyword for the third argument,
\* parse fails with ValueError and returns no bag; without any keyword the
\* error is "required arguments missing".
C14_TwoOfThreeRejected ==
    (C14_Scope /\ argp.decls[3].opts.mandatory)
    => /\ argp.exc = "ValueError"
       /\ argp.kv = <<>>
       /\ argp.kwargs = <<>> => argp.msg = "missing"

\* such a parse was refused for the missing third argument
C14_Witness ==
    /\ C14_Scope /\ argp.decls[3].opts.mandatory /\ argp.kwargs = <<>>
    /\ argp.exc = "ValueError" /\ argp.msg = "missing"

\* the registered specs with a default and mandatory unset that the call
\* gave no value for
C15_Defaulted ==
    {k \in 1..Len(Named) :
        /\ Named[k].default # NoValue /\ ~Named[k].mandatory
        /\ ~KvHas(Supplied, Named[k].name)}

\* a mandatory positional x and an optional y with default 'a', parsed with
\* the single positional value 'a'
C15_Example ==
    /\ argp.op = "parse"
    /\ argp.decls = << [level |-> "base",
                        opts |-> [NoKw EXCEPT !.name = "x", !.position = 0,
                                              !.mandatory = TRUE]],
                       [level |-> "base",
                        opts |-> [NoKw EXCEPT !.name = "y", !.default = "a"]] >>
    /\ argp.args = <<"a">> /\ argp.kwargs = <<>>

C15_ExampleBag ==
    C15_Example
    => /\ argp.exc = "none"
       /\ argp.kv = << [name |-> "x", value |-> "a"], [name |-> "y", value |-> "a"] >>

\* C15 as stated: a successful parse puts the default D itself in the bag for
\* every absent argument whose spec has a default and mandatory unset.
C15_DefaultInBag ==
    /\ C15_ExampleBag
    /\ (argp.op = "parse" /\ argp.exc = "none")
       => \A k \in C15_Defaulted :
             /\ KvHas(argp.kv, Named[k].name)
             /\ KvGet(argp.kv, Named[k].name) = Named[k].default

\* C15: a successful parse puts, for every absent argument whose spec has a
\* default D and mandatory unset, D in the bag when the spec has no function
\* and the function's value for D when it has one; the example yields exactly
\* {x: 'a', y: 'a'}.
C15_DefaultOrItsFnValueInBag ==
    /\ C15_ExampleBag
    /\ (argp.op = "parse" /\ argp.exc = "none")
       => \A k \in C15_Defaulted :
             /\ KvHas(argp.kv, Named[k].name)
             /\ KvGet(argp.kv, Named[k].name) = FnValue(Named[k], Named[k].default)

\* a parse filled in y's default and its function changed it
C15_Witness ==
    /\ argp.op = "parse" /\ argp.exc = "none"
    /\ \E k \in C15_Defaulted :
         /\ Named[k].fn # NoValue
         /\ KvGet(argp.kv, Named[k].name) # Named[k].default
    /\ \E k \in C15_Defaulted : Named[k].fn = NoValue

\* C16: ArgumentOpts(...) with a default and mandatory=True, given or forced
\* by a position, raises; and parse never meets a spec that has a default and
\* is mandatory.
C16_NoDefaultWithMandatory ==
    /\ (argp.op = "ArgumentOpts" /\ argp.kw.default # NoValue
         /\ (argp.kw.mandatory \/ argp.kw.position # NoPosition))
       => argp.exc = "ValueError"
    /\ argp.op = "parse"
       => \A k \in 1..Len(argp.decls) :
             ~(argp.decls[k].opts.default # NoValue /\ argp.decls[k].opts.mandatory)

\* C17: a parse that gets to the type check and was given a non-null value
\* that is neither an instance nor a subclass of its spec's type ends with
\* TypeError.
C17_TypeChecked ==
    (PastMandatory
     /\ \E k \in 1..Len(Supplied) :
          LET arg == NamedArg(Named, Supplied[k].name) IN
          /\ arg.argtype # NoValue /\ Supplied[k].value # NoValue
          /\ ~IsInstance(Supplied[k].value, arg.argtype)
          /\ ~IsSubclass(Supplied[k].value, arg.argtype))
    => (argp.exc = "TypeError" /\ argp.msg = "type")

\* the value a spec's function is applied to: the supplied one, or the
\* default where none or None was supplied
C18_Input(arg) ==
    IF KvGet(Supplied, arg.name) # NoValue THEN KvGet(Supplied, arg.name)
    ELSE arg.default

\* C18: every value of the returned bag is its spec's function applied to
\* the supplied-or-default value, and lies in the spec's choices if it has
\* any; a choice error is about the function's value, not about the value
\* supplied.
C18_DefaultsFnsChoices ==
    PastMandatory
    => /\ argp.exc = "none"
          => \A k \in 1..Len(argp.kv) :
                LET arg == NamedArg(Named, argp.kv[k].name) IN
                /\ argp.kv[k].value = FnValue(arg, C18_Input(arg))
                /\ arg.choices # {} => argp.kv[k].value \in arg.choices
       /\ argp.msg = "choices"
          => LET arg == NamedArg(Named, argp.arg) IN
             /\ argp.shown = FnValue(arg, C18_Input(arg))
             /\ argp.shown \notin arg.choices

\* y was absent, its default 'a' is not among its choices, and the parse
\* returned the function's value 'b', which is
C18_Witness ==
    /\ argp.op = "parse" /\ argp.exc = "none"
    /\ HasName(Named, "y") /\ ~KvHas(Supplied, "y")
    /\ NamedArg(Named, "y").default = "a" /\ NamedArg(Named, "y").fn = "f"
    /\ NamedArg(Named, "y").choices = {"b"}
    /\ KvGet(argp.kv, "y") = "b"

\* C19: a parser whose subclass declares a spec under a name its base class
\* declares too parses without a name clash.
C19_SubclassOverrides ==
    (argp.op = "parse" /\ DeclaredNames("sub") \cap DeclaredNames("base") # {})
    => argp.exc # "NameError"

\* C20: the text of a parse error never contains the value of an argument
\* whose spec is flagged secret.
C20_SecretNotShown ==
    (argp.op = "parse" /\ argp.exc # "none" /\ argp.shown # Absent)
    => ~NamedArg(Named, argp.arg).secret


\* C21: a connect() whose arguments fail validation ends with the argument
\* error before anything touched the JVM: in that call no class path entry
\* was added, Jvm.start was not called and no driver class was looked up,
\* by name or from the archive.
C21_ArgumentErrorBeforeRuntime ==
    (jvm.call.op = "connect" /\ jvm.call.phase = "parse_args") =>
        /\ jvm.call.exc \in {"ValueError", "TypeError", "NameError"}
        /\ jvm.call.cpAdds = 0
        /\ jvm.call.starts = 0
        /\ jvm.call.resolves = 0
        /\ jvm.call.jarLoads = 0

\* a connect() without its mandatory argument, on a connect function with an
\* archive to add, before the JVM is started
C21_Witness ==
    /\ jvm.call.op = "connect"
    /\ jvm.call.phase = "parse_args"
    /\ jvm.call.exc = "ValueError"
    /\ argp.decls # <<>>
    /\ ~jvm.call.preRunning
    /\ ~jvm.running
    /\ jvm.call.path = "good.jar"

\* C22: a load_driver that finds the JVM running, cannot resolve the driver
\* class by name (JClass raises ClassNotFoundException), has an archive path
\* and a runtime_invocation_ok of False ends with RuntimeError and never
\* calls Classpath.load_jar_class.
C22_LateBindingNeedsFlag ==
    (/\ jvm.call.op \in {"load_driver", "connect"}
     /\ jvm.call.phase = "load_driver"
     /\ jvm.call.preRunning
     /\ jvm.call.cls = "D"
     /\ ~jvm.call.byName
     /\ jvm.miss = "ClassNotFoundException"
     /\ jvm.call.path \in Jars
     /\ ~jvm.call.ok) =>
        /\ jvm.call.exc = "RuntimeError"
        /\ jvm.call.jarLoads = 0

\* C23: over every sequence of connect(), load_driver() and
\* Jvm.add_argument() calls, Jvm.start is called only while the JVM is not
\* running, so that at most one start takes effect; class path entries and
\* JVM arguments are added only while it is not running; and add_argument on
\* a running JVM ends with RuntimeError and adds nothing.
C23_RunningGuardsMutation ==
    /\ jvm.call.lateStarts = 0
    /\ jvm.call.lateAdds = 0
    /\ jvm.call.lateArgs = 0
    /\ jvm.started <= 1
    /\ jvm.running <=> jvm.started = 1
    /\ jvm.call.preRunning =>
          /\ jvm.call.starts = 0
          /\ jvm.call.cpAdds = 0
          /\ jvm.call.argAdds = 0
    /\ (jvm.call.op = "add_argument" /\ jvm.call.preRunning) =>
          jvm.call.exc = "RuntimeError"

\* a load_driver with an archive path that finds the JVM running and the
\* driver class not resolvable by name
C23_Witness ==
    /\ jvm.call.op = "load_driver"
    /\ jvm.call.preRunning
    /\ jvm.call.path \in Jars
    /\ jvm.call.cls = "D"
    /\ ~jvm.call.byName
    /\ jvm.started = 1

\* C24: a configure_jaas called again with the same arguments, while the
\* file an earlier call wrote is still there and readable, returns the path
\* of that file, does not open it for writing and does not raise; and a
\* call with a jaas_path that returns, returns that path.
C24_SecondCallReusesFile ==
    /\ (/\ fs.call.op = "configure_jaas"
        /\ fs.call.preWrote
        /\ fs.call.preReadable) =>
           /\ fs.call.exc = "none"
           /\ fs.call.ret = fs.call.preRet
           /\ fs.call.preRet \notin fs.call.opened
    /\ (/\ fs.call.op = "configure_jaas"
        /\ fs.call.jaas_path # NoValue
        /\ fs.call.exc = "none") => fs.call.ret = fs.call.jaas_path

\* C25: in every row fetchone returned, a column decodes to None if and
\* only if the driver's value for it is SQL NULL, whatever its type and
\* whatever the column read before it was.
C25_NullIffDriverNull ==
    last.op = "fetchone" =>
        \A r \in 1..Len(last.out) : \A c \in 1..Len(last.out[r]) :
            (last.out[r][c] = PyNone) <=> last.nulls[last.rows[r]][c]

\* the setter the claim names for a value
SetterFor(v) ==
    CASE v.t = "str"   -> "setString"
      [] v.t = "float" -> "setDouble"
      [] v.t = "int"   -> IF v.i >= -JIntMax - 1 /\ v.i <= JIntMax
                          THEN "setInt" ELSE "setLong"
      [] v.t = "bool"  -> "setBoolean"
      [] v.t = "bytes" -> "setBytes"
      [] OTHER         -> "setObject"

\* C26: execute binds the i-th value at index i with the setter of its
\* type: str with setString, float with setDouble, int with setInt or, where
\* it does not fit, setLong, bool with setBoolean, bytes with setBytes and
\* every other value with setObject.
C26_SetterMatchesType ==
    (last.op = "execute" /\ last.bound # <<>>) =>
        \A i \in 1..Len(last.values) :
            /\ last.bound[i].column = i
            /\ last.bound[i].setter = SetterFor(last.values[i])

\* C27: for every java.sql.Timestamp with nanoseconds n in 0..999999999 the
\* decoded datetime has microsecond floor(n / 1000), which is in 0..999999.
C27_MicrosecondsTruncated ==
    last.op = "TIMESTAMP" =>
        /\ last.decoded.i = last.value.i \div 1000
        /\ last.decoded.i \in 0..999999

\* the names the claim asks for: the prefixes stripped where every name has
\* the same one or where the stripped names are pairwise distinct
AllPrefixed(names) == \A i \in 1..Len(names) : HasDot(names[i])
SamePrefix(names) ==
    AllPrefixed(names) /\ \A i \in 1..Len(names) : names[i][1] = names[1][1]
Stripped(names) == [i \in 1..Len(names) |-> Tail(names[i])]
NamesWanted(names) ==
    IF SamePrefix(names) THEN Stripped(names)
    ELSE IF AllPrefixed(names) /\ Distinct(Stripped(names)) = Len(names)
    THEN Stripped(names)
    ELSE names

\* C28: on a result set with at least one column, column_names returns
\* without error one name for each column, in column order: the names
\* without their prefix where all carry the same prefix or where the
\* unprefixed names are pairwise distinct, and the reported names otherwise.
C28_OneNamePerColumn ==
    (/\ last.op = "column_names"
     /\ last.preMeta
     /\ last.names # <<>>) =>
        /\ last.exc = "none"
        /\ ~last.isNone
        /\ Len(last.out) = Len(last.names)
        /\ last.out = NamesWanted(last.names)

\* the parse got past the type check, to the check of requires and excludes
PastTypes ==
    /\ argp.op = "parse"
    /\ argp.exc = "none" \/ argp.msg \in {"requires", "excludes", "fn type", "choices"}

\* the supplied arguments whose requires or excludes the supplied ones break
Breaking ==
    {n \in KvNames(Supplied) :
        \/ NamedArg(Named, n).requires \ KvNames(Supplied) # {}
        \/ NamedArg(Named, n).excludes \cap KvNames(Supplied) # {}}

\* C29: the check of requires and excludes looks at the supplied arguments
\* only: parse fails there exactly when a supplied argument requires one that
\* was not supplied or excludes one that was, and the error names the
\* argument and the missing or the conflicting co-arguments; an argument
\* that has only its default neither satisfies a requires nor triggers an
\* excludes.
C29_RelationsOverSupplied ==
    PastTypes =>
        /\ argp.msg \in {"requires", "excludes"} <=> Breaking # {}
        /\ argp.msg = "requires" =>
              /\ argp.exc = "ValueError"
              /\ argp.arg \in Breaking
              /\ argp.co = NamedArg(Named, argp.arg).requires \ KvNames(Supplied)
              /\ argp.co # {}
        /\ argp.msg = "excludes" =>
              /\ argp.exc = "ValueError"
              /\ argp.arg \in Breaking
              /\ argp.co = NamedArg(Named, argp.arg).excludes \cap KvNames(Supplied)
              /\ argp.co # {}

\* x, which excludes z, and y are supplied, z is not and has a default: the
\* parse succeeds and z has its default
C29_Witness ==
    /\ argp.op = "parse" /\ argp.exc = "none"
    /\ KvHas(Supplied, "x") /\ ~KvHas(Supplied, "z")
    /\ HasName(Named, "z")
    /\ "z" \in NamedArg(Named, "x").excludes
    /\ NamedArg(Named, "z").default = "b"
    /\ KvGet(argp.kv, "z") = "b"

\* the latest call is an execute that returned a result set
ReturnedResultSet ==
    /\ last.op = "execute" /\ last.exc = "none"
    /\ cursor.resultset # NoHandle
    /\ cursor.resultset \in jconn.rsOpen

\* C30: after an execute that returned a result set of N >= 0 rows the
\* result set is before its first row; with row counting enabled rowcount is
\* N where the driver supports the seek (0 for an empty result set) and -1
\* where it does not.
C30_RowcountBySeeking ==
    (ReturnedResultSet /\ cursor.get_rowcounts) =>
        /\ jconn.rsPos[cursor.resultset] = 0
        /\ jconn.rsRows[cursor.resultset] = last.truth
        /\ last.known => cursor.rowcount = last.truth
        /\ ~last.known => cursor.rowcount = -1
====
